---- MODULE Spec2Model ----
(***************************************************************************)
(* Minerva: intent routing, conversation history, fact memory, documents.   *)
(*                                                                         *)
(* The module holds several specifications over one set of variables:      *)
(*   SpecDb     DatabaseManager (conversations, messages, history query)   *)
(*   SpecCrew   MinervaCrew.route and the handlers it dispatches to        *)
(*   SpecRouter IntelligentRouter.route with KnowledgeAgent and            *)
(*              ConversationalAgent                                        *)
(*   SpecFacts  Mem0Wrapper and FactMemoryService                          *)
(*   SpecParse  FactExtractor._parse_facts_json                            *)
(*   SpecGate   Mem0Wrapper._validate_memory_quality                       *)
(*   SpecMemory FactMemoryService and SimpleMemoryService: ingest, recall  *)
(*   SpecRecall recall of FactMemoryService and of Mem0Wrapper             *)
(*   SpecChunks DocumentProcessor._create_chunks                           *)
(*   SpecSearch DocumentIndexer.index_document and search_documents        *)
(*   SpecIndex  DocumentIndexer: index, search, has_documents, delete      *)
(*   SpecCollections  the one VectorMemory under facts and documents       *)
(*   SpecPrompts PromptManager and the components that load a prompt       *)
(* Text is a sequence of one-character strings, so that strip, lower,      *)
(* len and the substring test are computed as Python computes them.        *)
(* A handler that calls collaborators which may fail is an operator that   *)
(* yields the SET of its possible outcomes; an action takes one of them.   *)
(***************************************************************************)
EXTENDS Integers, Sequences, FiniteSets, TLC

VARIABLES
  conversations,  \* conversations table: conversations[id] = [updated_at, is_active]
  messages,       \* messages table, in insertion order (id = position)
  clock,          \* wall clock, in the one-second resolution of func.now()
  lastQuery,      \* last get_conversation_messages call and what it returned
  request,        \* the last call of a handler: which one, on which conversation
  turnLog,        \* what the last route() call did, in order
  result,         \* what the last route() call returned (or raised)
  classified,     \* last _classify_intent call: what the model said, what was returned
  lcHistory,      \* SQLChatMessageHistory rows (session id, type), in insertion order
  mem0Store,      \* memories persisted inside mem0 (Memory.add)
  qdrantFacts,    \* fact texts stored by FactMemoryService through add_texts
  pending,        \* FactMemoryService.pending_user_messages / pending_ai_messages
  message_count,  \* FactMemoryService.message_count
  factLog,        \* last fact-store operation: candidates seen, what the gate said
  simpleFacts,    \* fact texts stored by SimpleMemoryService.remember
  extraction_prompt, \* FactExtractor.extraction_prompt, the template loaded at construction
  extraction_interval, \* FactMemoryService.extraction_interval
  extraction,     \* last FactMemoryService.add_exchange call: what it was given, how it went
  lastRecall,     \* last recall made since the fact stores last changed
  parsed,         \* last FactExtractor._parse_facts_json call
  gate,           \* last Mem0Wrapper._validate_memory_quality call
  chunked,        \* last DocumentProcessor._create_chunks call
  collection_name, \* VectorMemory.collection_name of the one instance of the process
  points,         \* the points of the Vector Index, each in its collection
  documents,      \* documents table, in insertion order (id = position)
  uuids,          \* how many index_document calls drew point ids
  indexed,        \* last index_document / delete_document / has_documents call
  lastSearch,     \* last search_documents call
  prompt_versions, \* prompt_versions table, in insertion order
  prompted,       \* last PromptManager call
  startup         \* last construction of a component that loads a prompt

vars == <<conversations, messages, clock, lastQuery, request, turnLog, result, classified,
          lcHistory, mem0Store, qdrantFacts, pending, message_count, factLog,
          simpleFacts, extraction_prompt, extraction_interval, extraction, lastRecall,
          parsed, gate, chunked, collection_name, points, documents, uuids, indexed,
          lastSearch, prompt_versions, prompted, startup>>

dbVars    == <<conversations, messages, clock>>
turnVars  == <<request, turnLog, result, classified>>
factVars  == <<mem0Store, qdrantFacts, pending, message_count, factLog,
               simpleFacts, extraction_prompt, extraction_interval, extraction,
               lastRecall>>
callVars  == <<parsed, gate, chunked>>
indexVars == <<collection_name, points, documents, uuids, indexed, lastSearch>>
promptVars == <<prompt_versions, prompted, startup>>

None == "None"

\* conversation_id = None (or any falsy id)
NoConversation == 0

\* extra_metadata: the keys of the JSON object and, under "sources", the
\* list of sources (each source, a title with its url, is one name).
\* None and {} are both the empty object: every reader tests truthiness.
NoMetadata == [keys |-> {}, sources |-> <<>>]
SourcesMetadata(srcs) == [keys |-> {"sources"}, sources |-> srcs]

\* values of the variables before the first call
NoQuery == [conversation_id |-> NoConversation, limit |-> 0, rows |-> <<>>, called |-> FALSE]
NoRequest == [op |-> "none", user_message |-> "", conversation_id |-> NoConversation]
NoAnswer == [text |-> "", arg |-> <<>>]
NoResult == [op |-> "none", raised |-> FALSE, answer |-> NoAnswer, agent_used |-> "",
             confidence |-> "", sources |-> <<>>, flags |-> {}]
NoClassification == [called |-> FALSE, prompt |-> "", raised |-> FALSE,
                     response |-> <<>>, intent |-> ""]
NoFactLog == [op |-> "none", candidates |-> {}, valid_count |-> 0]
NoExtraction == [called |-> FALSE, triggered |-> FALSE, given |-> <<>>, raised |-> FALSE,
                 failed |-> {}, batch |-> <<>>]
NoRecall == [op |-> "none", query |-> "", limit |-> 0, failed |-> FALSE, hits |-> <<>>,
             nth |-> 0, prev_failed |-> FALSE, prev_hits |-> <<>>]
NoParse == [called |-> FALSE, raw_output |-> <<>>, raised |-> FALSE, err |-> "",
            facts |-> <<>>]
NoGate == [called |-> FALSE, memory_text |-> <<>>, valid |-> FALSE]
NoChunked == [called |-> FALSE, text |-> <<>>, chunk_size |-> 0, chunk_overlap |-> 0,
              returned |-> FALSE, chunks |-> <<>>, starts |-> <<>>]
NoIndexed == [op |-> "none", filename |-> "", collection |-> None, document_id |-> 0,
              fault |-> "none", raised |-> FALSE, success |-> FALSE, error |-> "",
              qdrant_ids |-> {}, after_failure |-> FALSE]
NoSearch == [called |-> FALSE, collection |-> None, limit |-> 0, score_threshold |-> 0,
             fault |-> "none", results |-> <<>>]
NoPrompted == [op |-> "none", version_id |-> 0, returned |-> FALSE, raised |-> FALSE,
               was_active |-> FALSE]
NoStartup == [component |-> "none", db_manager |-> FALSE, prompt_in_db |-> FALSE,
              raised |-> FALSE, prompt |-> ""]

----------------------------------------------------------------------------
(* Bounds of the model.                                                    *)

MaxMessages == 2        \* rows in the messages table
MaxConversations == 1   \* rows in the conversations table
MaxClock == 1           \* seconds that pass
MaxLimit == 2           \* largest limit asked of get_conversation_messages
MaxExchanges == 5       \* exchanges given to FactMemoryService.add_exchange
MaxHistory == 2         \* rows in the SQLChatMessageHistory table
MaxSimpleFacts == 2     \* facts stored by SimpleMemoryService.remember
MaxMemories == 1        \* memories held by mem0
MaxIndexed == 2         \* index_document calls that drew point ids
MaxVersions == 3        \* rows ever added to the prompt_versions table

----------------------------------------------------------------------------
(* Text, as Python's str methods treat it.                                 *)

UpperChars == <<"A","B","C","D","E","F","G","H","I","J","K","L","M",
                "N","O","P","Q","R","S","T","U","V","W","X","Y","Z",
                "Á","É","Í","Ó","Ú","Ü","Ñ">>
LowerChars == <<"a","b","c","d","e","f","g","h","i","j","k","l","m",
                "n","o","p","q","r","s","t","u","v","w","x","y","z",
                "á","é","í","ó","ú","ü","ñ">>

LowerChar(c) ==
  IF \E i \in 1..Len(UpperChars) : UpperChars[i] = c
  THEN LowerChars[CHOOSE i \in 1..Len(UpperChars) : UpperChars[i] = c]
  ELSE c

\* str.lower()
LowerStr(s) == [i \in 1..Len(s) |-> LowerChar(s[i])]

IsSpace(c) == c \in {" ", "\n", "\t", "\r"}

SetMin(S) == CHOOSE x \in S : \A y \in S : x <= y
SetMax(S) == CHOOSE x \in S : \A y \in S : x >= y

\* str.lstrip(), str.rstrip()
LStrip(s) ==
  LET kept == {i \in 1..Len(s) : ~IsSpace(s[i])}
  IN  IF kept = {} THEN <<>> ELSE SubSeq(s, SetMin(kept), Len(s))

RStrip(s) ==
  LET kept == {i \in 1..Len(s) : ~IsSpace(s[i])}
  IN  IF kept = {} THEN <<>> ELSE SubSeq(s, 1, SetMax(kept))

\* str.strip()
Strip(s) == RStrip(LStrip(s))

\* sub in s
Contains(sub, s) ==
  \E i \in 0..(Len(s) - Len(sub)) : SubSeq(s, i + 1, i + Len(sub)) = sub

\* s.startswith(p)
StartsWith(s, p) == Len(s) >= Len(p) /\ SubSeq(s, 1, Len(p)) = p


RECURSIVE Reverse(_)
Reverse(s) == IF s = <<>> THEN <<>> ELSE Append(Reverse(Tail(s)), Head(s))

----------------------------------------------------------------------------
(* DatabaseManager: conversations and messages.                            *)

\* DatabaseManager.create_conversation: autoincrement id, updated_at = now
CreateConversationRow(convs, now) ==
  Append(convs, [updated_at |-> now, is_active |-> TRUE])

\* DatabaseManager.add_message: one row, timestamp = func.now(); the
\* conversation's updated_at is refreshed when the conversation exists.
\* Of the Message columns only those some reader looks at are kept.
AddMessageRows(msgs, cid, role, content, agent_type, metadata, now) ==
  Append(msgs, [id |-> Len(msgs) + 1,
                conversation_id |-> cid,
                role |-> role,
                content |-> content,
                agent_type |-> agent_type,
                extra_metadata |-> metadata,
                timestamp |-> now])

AddMessageConvs(convs, cid, now) ==
  IF cid \in 1..Len(convs)
  THEN [convs EXCEPT ![cid].updated_at = now]
  ELSE convs

\* rows of one conversation
RowsOf(msgs, cid) == {msgs[i] : i \in {j \in 1..Len(msgs) : msgs[j].conversation_id = cid}}

\* Every order of the rows that ORDER BY timestamp ASC allows: rows of one
\* timestamp come in whatever order the engine picks.
RECURSIVE OrderByTimestampAsc(_)
OrderByTimestampAsc(rows) ==
  IF rows = {} THEN {<<>>}
  ELSE UNION { { <<m>> \o rest : rest \in OrderByTimestampAsc(rows \ {m}) } :
               m \in {x \in rows : \A y \in rows : x.timestamp <= y.timestamp} }

\* .limit(n).all()
Limit(s, n) == IF Len(s) <= n THEN s ELSE SubSeq(s, 1, n)

\* DatabaseManager.get_conversation_messages.  The query is built with
\* order_by(Message.timestamp); with a limit a second order_by(desc(timestamp))
\* is ADDED to it (Query.order_by appends its criteria), which leaves the
\* ascending order in force with the descending key as a tie-breaker that
\* never decides anything: ORDER BY timestamp, timestamp DESC LIMIT n.  The
\* rows fetched are then reversed.  limit = 0 stands for None (no limit).
GetConversationMessages(msgs, cid, limit) ==
  LET asc == OrderByTimestampAsc(RowsOf(msgs, cid))
  IN  IF limit # 0
      THEN { Reverse(Limit(q, limit)) : q \in asc }
      ELSE asc

\* DatabaseManager.get_active_conversations(limit=1): the most recently
\* updated active conversation, any of them when several share the time.
GetActiveConversationsLimit1(convs) ==
  LET active == {i \in 1..Len(convs) : convs[i].is_active}
  IN  {i \in active : \A j \in active : convs[j].updated_at <= convs[i].updated_at}

----------------------------------------------------------------------------
(* SpecDb: the database manager driven directly.                           *)

Roles == {"user", "assistant"}

\* extraction_interval: int = 5
ExtractionInterval == 5

\* FactExtractor._load_prompt: the template when there is no DatabaseManager
DefaultPrompt ==
  <<"A","n","a","l","i","z","a"," ","l","a"," ","c","o","n","v","e","r","s","a","c","i","ó","n"," ","y"," ","e","x","t","r","a","e"," ","h","e","c","h","o","s"," ","i","m","p","o","r","t","a","n","t","e","s",".","\n","R","e","s","p","o","n","d","e"," ","c","o","n"," ","J","S","O","N",":"," ","{","\"","f","a","c","t","s","\"",":"," ","[","{","\"","c","a","t","e","g","o","r","y","\"",":"," ","\"","t","i","p","o","\"",","," ","\"","f","a","c","t","\"",":"," ","\"","t","e","x","t","o","\"","}","]","}">>

\* the template the database is initialised with: of its lines, the ones
\* that hold braces
DbPrompt ==
  <<"C","o","n","v","e","r","s","a","c","i","ó","n",":","\n","{","c","o","n","v","e","r","s","a","t","i","o","n","}","\n","\n","S","i"," ","N","O"," ","h","a","y"," ","h","e","c","h","o","s"," ","i","m","p","o","r","t","a","n","t","e","s"," ","q","u","e"," ","e","x","t","r","a","e","r",","," ","r","e","s","p","o","n","d","e",":","\n","{","{","\"","f","a","c","t","s","\"",":"," ","[","]","}","}","\n","\n","J","S","O","N",":">>

InitWith(prompt, interval) ==
  /\ conversations = <<>>
  /\ messages = <<>>
  /\ clock = 0
  /\ lastQuery = NoQuery
  /\ request = NoRequest
  /\ turnLog = <<>>
  /\ result = NoResult
  /\ classified = NoClassification
  /\ lcHistory = <<>>
  /\ mem0Store = {}
  /\ qdrantFacts = <<>>
  /\ pending = <<>>
  /\ message_count = 0
  /\ factLog = NoFactLog
  /\ simpleFacts = <<>>
  /\ extraction_prompt = prompt
  /\ extraction_interval = interval
  /\ extraction = NoExtraction
  /\ lastRecall = NoRecall
  /\ parsed = NoParse
  /\ gate = NoGate
  /\ chunked = NoChunked
  /\ collection_name = None
  /\ points = {}
  /\ documents = <<>>
  /\ uuids = 0
  /\ indexed = NoIndexed
  /\ lastSearch = NoSearch
  /\ prompt_versions = <<>>
  /\ prompted = NoPrompted
  /\ startup = NoStartup

\* the application as it is deployed: the prompts are in the database
InitAll == InitWith(DbPrompt, ExtractionInterval)

\* a FactExtractor is built without a DatabaseManager or with one, a
\* FactMemoryService with the default interval or with a shorter one
MemoryConfigs ==
  { <<DefaultPrompt, 2>>, <<DefaultPrompt, ExtractionInterval>>,
    <<DbPrompt, ExtractionInterval>> }

InitMemory == \E config \in MemoryConfigs : InitWith(config[1], config[2])

\* no call is under way and no result is waiting to be taken
Idle == request.op = "none"

\* a second passes
Tick ==
  /\ Idle
  /\ clock < MaxClock
  /\ clock' = clock + 1
  /\ UNCHANGED <<indexVars, promptVars, conversations, messages, lastQuery, turnVars, lcHistory, factVars, callVars>>

CreateConversation ==
  /\ Idle
  /\ Len(conversations) < MaxConversations
  /\ conversations' = CreateConversationRow(conversations, clock)
  /\ UNCHANGED <<indexVars, promptVars, messages, clock, lastQuery, turnVars, lcHistory, factVars, callVars>>

DbAddMessage ==
  /\ Len(messages) < MaxMessages
  /\ \E cid \in 1..Len(conversations), role \in Roles :
       /\ messages' = AddMessageRows(messages, cid, role, "m", None, NoMetadata, clock)
       /\ conversations' = AddMessageConvs(conversations, cid, clock)
  /\ lastQuery' = NoQuery
  /\ UNCHANGED <<indexVars, promptVars, clock, turnVars, lcHistory, factVars, callVars>>

DbGetConversationMessages ==
  /\ \E cid \in 1..Len(conversations), limit \in 0..MaxLimit :
       \E rows \in GetConversationMessages(messages, cid, limit) :
         lastQuery' = [conversation_id |-> cid, limit |-> limit, rows |-> rows,
                       called |-> TRUE]
  /\ UNCHANGED <<indexVars, promptVars, dbVars, turnVars, lcHistory, factVars, callVars>>

NextDb == Tick \/ CreateConversation \/ DbAddMessage \/ DbGetConversationMessages

SpecDb == InitAll /\ [][NextDb]_vars

\* the rows of a conversation in the order they were appended
AppendedTo(cid) ==
  LET InConv(m) == m.conversation_id = cid
  IN  SelectSeq(messages, InConv)

DistinctTimestamps(rows) ==
  \A i, j \in 1..Len(rows) : i # j => rows[i].timestamp # rows[j].timestamp

\* C4: get_conversation_messages(conversation_id, limit=K) on a conversation
\* of n messages returns exactly the min(K, n) most recently appended
\* messages, oldest of them first.  Stated for conversations whose messages
\* all carry different timestamps, where "most recent" is not in question.
C4_MostRecentInChronologicalOrder ==
  (lastQuery.called /\ lastQuery.limit > 0) =>
    LET all == AppendedTo(lastQuery.conversation_id)
        n == Len(all)
        k == IF lastQuery.limit < n THEN lastQuery.limit ELSE n
    IN  DistinctTimestamps(all) => lastQuery.rows = SubSeq(all, n - k + 1, n)

----------------------------------------------------------------------------
(* What collaborators may answer.                                          *)

\* texts of the exceptions a call to the Completion Provider may raise
Errors == {"timeout", "connection refused"}
DbError == "database is locked"
\* the text generated for a turn
Answers == {"a1"}
UserMessages == {"q1"}
\* results[:3] of a web search, as WebAgent stores them
SourceLists == {<<"s1">>, <<"s2">>}

\* the closed set of categories, by name and spelled out
L_conversation ==
  <<"c","o","n","v","e","r","s","a","t","i","o","n">>
L_knowledge ==
  <<"k","n","o","w","l","e","d","g","e">>
L_web ==
  <<"w","e","b">>
L_source_request ==
  <<"s","o","u","r","c","e","_","r","e","q","u","e","s","t">>

\* valid_intents, in the order the loop tries them
ValidIntents ==
  << [name |-> "conversation",   chars |-> L_conversation],
     [name |-> "knowledge",      chars |-> L_knowledge],
     [name |-> "web",            chars |-> L_web],
     [name |-> "source_request", chars |-> L_source_request] >>

\* what the model may say when asked for a category
O_empty == <<>>
O_web_padded ==
  <<" ","W","e","b","\n">>
O_sources ==
  <<"s","o","u","r","c","e","s">>
O_website ==
  <<"w","e","b","s","i","t","e">>
O_web_or_knowledge ==
  <<"w","e","b"," ","o","r"," ","k","n","o","w","l","e","d","g","e">>
O_personal ==
  <<"p","e","r","s","o","n","a","l">>
O_categoria_web ==
  <<"c","a","t","e","g","o","r","i","a",":"," ","w","e","b">>

\* the answers a whole turn is explored with
ModelOutputs ==
  { L_conversation, L_knowledge, L_web, L_source_request,
    O_website }

\* the answers the classification alone is explored with: the above, and
\* every two of Words in one sentence
Words ==
  { L_conversation, L_knowledge, L_web, L_source_request,
    O_personal, O_website, O_sources }

ClassifierOutputs ==
  ModelOutputs \cup {O_empty, O_web_padded, O_personal, O_web_or_knowledge,
                      O_categoria_web}
    \cup { a \o <<" ">> \o b : a \in Words, b \in Words }

----------------------------------------------------------------------------
(* The state a handler threads through its steps, and its outcomes.        *)

Thread(msgs, convs, lc, now) ==
  [messages |-> msgs, conversations |-> convs, lc |-> lc, clock |-> now, log |-> <<>>]

Ev(st, ev, by) == [st EXCEPT !.log = Append(@, [ev |-> ev, by |-> by])]

\* time that may pass before a step (a generation takes seconds)
Elapse(st) ==
  {st} \cup (IF st.clock < MaxClock THEN {[st EXCEPT !.clock = @ + 1]} ELSE {})

Returned(st, ret) == [st |-> st, raised |-> FALSE, err |-> "", ret |-> ret]
Raised(st, err)   == [st |-> st, raised |-> TRUE, err |-> err, ret |-> NoResult]

\* db_manager.add_message as its caller sees it: the row is committed with
\* the time of the insert, or the call raises and nothing is written
DbAddMessageOutcomes(st, cid, role, content, agent_type, metadata, by) ==
  { Returned(Ev([t EXCEPT
                   !.messages = AddMessageRows(@, cid, role, content, agent_type,
                                               metadata, t.clock),
                   !.conversations = AddMessageConvs(@, cid, t.clock)],
                IF role = "user" THEN "add_user" ELSE "add_assistant", by),
             NoResult) : t \in Elapse(st) }
  \cup { Raised(Ev(st, "db_error", by), DbError) }

----------------------------------------------------------------------------
(* MinervaCrew._classify_intent                                            *)

FirstValidIntentLast(intent) ==
  LET hits == {i \in 1..Len(ValidIntents) : Contains(ValidIntents[i].chars, intent)}
  IN  IF hits = {} THEN "conversation" ELSE ValidIntents[SetMax(hits)].name

\* the loop over valid_intents: the first category, in list order, that
\* occurs in the answer; 'conversation' when none does
FirstValidIntent(intent) ==
  LET hits == {i \in 1..Len(ValidIntents) : Contains(ValidIntents[i].chars, intent)}
  IN  IF hits = {} THEN "conversation" ELSE ValidIntents[SetMin(hits)].name

\* prompt: "active" (the router prompt is in the prompt store), "missing"
\* (get_active_prompt gave None: the built-in template is used) or "raise"
\* (the prompt store or str.format raised).  post: the HTTP call raised
\* (transport error, timeout, bad status, bad JSON) or gave a response.
ClassifyIntent(prompt, postRaised, response) ==
  IF prompt = "raise" \/ postRaised
  THEN "conversation"
  ELSE FirstValidIntent(LowerStr(Strip(response)))

\* every way one _classify_intent call can go, over the given answers
ClassificationsOf(outputs) ==
  { [called |-> TRUE, prompt |-> "raise", raised |-> TRUE, response |-> <<>>,
     intent |-> ClassifyIntent("raise", FALSE, <<>>)] }
  \cup { [called |-> TRUE, prompt |-> p, raised |-> TRUE, response |-> <<>>,
          intent |-> ClassifyIntent(p, TRUE, <<>>)] : p \in {"active", "missing"} }
  \cup { [called |-> TRUE, prompt |-> p, raised |-> FALSE, response |-> r,
          intent |-> ClassifyIntent(p, FALSE, r)] :
         p \in {"active", "missing"}, r \in outputs }

----------------------------------------------------------------------------
(* SpecClassify: _classify_intent on its own.                              *)

ClassifyIntentCall ==
  /\ \E c \in ClassificationsOf(ClassifierOutputs) : classified' = c
  /\ UNCHANGED <<indexVars, promptVars, dbVars, lastQuery, request, turnLog, result, lcHistory, factVars, callVars>>

NextClassify == ClassifyIntentCall

SpecClassify == InitAll /\ [][NextClassify]_vars

KnownLabels == {"conversation", "knowledge", "web", "source_request"}

\* the category the first-in-list-order rule gives, spelled out
FirstOccurring(t) ==
  IF Contains(L_conversation, t) THEN "conversation"
  ELSE IF Contains(L_knowledge, t) THEN "knowledge"
  ELSE IF Contains(L_web, t) THEN "web"
  ELSE IF Contains(L_source_request, t) THEN "source_request"
  ELSE "conversation"

----------------------------------------------------------------------------
(* SourceRetrievalTool._run                                                *)

\* limit of the history query
SourceQueryLimit == 20

HasSources(m) ==
  /\ m.role = "assistant"
  /\ m.extra_metadata.keys # {}
  /\ "sources" \in m.extra_metadata.keys
  /\ m.extra_metadata.sources # <<>>

\* for message in reversed(messages): the first row with sources, if any
RECURSIVE FirstWithSources(_)
FirstWithSources(rows) ==
  IF rows = <<>> THEN <<>>
  ELSE IF HasSources(Head(rows)) THEN <<Head(rows)>>
  ELSE FirstWithSources(Tail(rows))

FormatSources(rows) ==
  LET hit == FirstWithSources(Reverse(rows))
  IN  IF hit = <<>>
      THEN [text |-> "No se encontraron fuentes en mensajes recientes", arg |-> <<>>]
      ELSE [text |-> "Fuentes encontradas:", arg |-> hit[1].extra_metadata.sources]

\* the answer texts one _run call can give (it never raises: every
\* exception becomes a text)
SourceRetrievalRun(st, cid) ==
  LET Failed == [text |-> "Error recuperando fuentes: ", arg |-> <<DbError>>]
      From(c) == {FormatSources(rows) :
                    rows \in GetConversationMessages(st.messages, c, SourceQueryLimit)}
                 \cup {Failed}
  IN  IF cid = NoConversation
      THEN IF GetActiveConversationsLimit1(st.conversations) = {}
           THEN {[text |-> "No hay conversaciones activas", arg |-> <<>>], Failed}
           ELSE UNION {From(c) : c \in GetActiveConversationsLimit1(st.conversations)}
      ELSE From(cid)

----------------------------------------------------------------------------
(* MinervaCrew: the handlers and route.                                    *)

CrewResult(answer, agent_used, confidence, sources) ==
  [op |-> "crew.route", raised |-> FALSE, answer |-> answer,
   agent_used |-> agent_used, confidence |-> confidence, sources |-> sources,
   flags |-> {}]

Generated(a) == [text |-> "generated", arg |-> <<a>>]

\* what the agent's tool call gave, when the agent chose to call its tool
ToolOutcomes(agent) ==
  IF agent = "knowledge"
  THEN {"not_called", "no_documents", "no_results", "results", "error"}
  ELSE IF agent = "conversational"
  THEN {"not_called", "called"}
  ELSE {"not_called"}

\* Crew(...).kickoff(): the agent runs on the Completion Provider, may use
\* its tool, and gives its final answer; a failure of the provider raises.
Kickoff(st, agent) ==
  LET called == Ev(st, "llm_call", agent)
  IN  { Raised(Ev(called, "llm_failed", agent), e) : e \in Errors }
      \cup { [st |-> Ev(IF tool = "not_called" THEN called ELSE Ev(called, "tool", tool),
                        "generated", agent),
              raised |-> FALSE, err |-> "", ret |-> NoResult, answer |-> a] :
             tool \in ToolOutcomes(agent), a \in Answers }

SaveExchangeAssistantFirst(st, um, cid, answer, agent_type, by) ==
  IF cid = NoConversation
  THEN { Returned(st, NoResult) }
  ELSE UNION { IF a.raised THEN {a}
               ELSE DbAddMessageOutcomes(a.st, cid, "user", um, None, NoMetadata, by)
               : a \in DbAddMessageOutcomes(st, cid, "assistant", answer, agent_type,
                                            NoMetadata, by) }

\* the two writes every handler ends with: if self.db_manager and conversation_id
SaveExchange(st, um, cid, answer, agent_type, by) ==
  IF cid = NoConversation
  THEN { Returned(st, NoResult) }
  ELSE UNION { IF u.raised THEN {u}
               ELSE DbAddMessageOutcomes(u.st, cid, "assistant", answer, agent_type,
                                         NoMetadata, by)
               : u \in DbAddMessageOutcomes(st, cid, "user", um, None, NoMetadata, by) }

\* MinervaCrew._handle_source_request
HandleSourceRequest(st, um, cid) ==
  { Returned(Ev(st, "source_retrieval", "source_request"),
             CrewResult(a, "source_retrieval", "Alta", <<>>)) :
    a \in SourceRetrievalRun(st, cid) }

\* MinervaCrew._handle_conversation
HandleConversation(st, um, cid) ==
  UNION { IF k.raised THEN {Raised(k.st, k.err)}
          ELSE { IF w.raised THEN w
                 ELSE Returned(w.st, CrewResult(Generated(k.answer), "conversational",
                                                "Alta", <<>>))
                 : w \in SaveExchange(Ev(k.st, "fact_update", "conversational"),
                                      um, cid, k.answer, "conversational",
                                      "conversational") }
          : k \in Kickoff(st, "conversational") }

\* MinervaCrew._handle_knowledge
HandleKnowledge(st, um, cid) ==
  UNION { IF k.raised THEN {Raised(k.st, k.err)}
          ELSE { IF w.raised THEN w
                 ELSE Returned(w.st, CrewResult(Generated(k.answer), "knowledge",
                                                "Alta", <<>>))
                 : w \in SaveExchange(k.st, um, cid, k.answer, "knowledge", "knowledge") }
          : k \in Kickoff(st, "knowledge") }

\* MinervaCrew._handle_web_search.  Its first statement after the imports,
\* date_normalizer.normalize(user_message), names a method DateNormalizer
\* does not have (it has normalizar_fechas): the AttributeError is caught by
\* the handler's own except, and nothing below that line ever runs.
NoNormalize == "'DateNormalizer' object has no attribute 'normalize'"

HandleWebSearch(st, um, cid) ==
  { Returned(Ev(st, "normalize_failed", "web"),
             CrewResult([text |-> "Error en busqueda web: ", arg |-> <<NoNormalize>>],
                        "web", "Baja", <<>>)) }

\* mem0.get_relevant_context: the search itself never raises; formatting
\* the memories does when one of them is not a dict
BadMemory == "'str' object has no attribute 'get'"

GetRelevantContext(st) ==
  { Returned(Ev(st, "fact_recall", "route"), NoResult),
    Raised(Ev(st, "fact_recall", "route"), BadMemory) }

Dispatch(st, intent, um, cid) ==
  IF intent = "source_request" THEN HandleSourceRequest(st, um, cid)
  ELSE IF intent = "web" THEN HandleWebSearch(st, um, cid)
  ELSE IF intent = "knowledge" THEN HandleKnowledge(st, um, cid)
  ELSE HandleConversation(st, um, cid)

\* MinervaCrew.route, given how the classification went: whatever is raised
\* below it becomes the 'error' record
CrewRoute(st, um, cid, c) ==
  LET body == UNION { IF m.raised THEN {m} ELSE Dispatch(m.st, c.intent, um, cid)
                      : m \in GetRelevantContext(Ev(st, "classify", c.intent)) }
  IN  { IF o.raised
        THEN Returned(o.st, CrewResult([text |-> "Ocurrio un error: ", arg |-> <<o.err>>],
                                       "error", "Baja", <<>>))
        ELSE o
        : o \in body }

----------------------------------------------------------------------------
(* WebAgent.search_and_answer: the one writer of 'sources' metadata.       *)

WebAgentResult(answer, sources, success) ==
  [op |-> "web_agent", raised |-> FALSE, answer |-> answer, agent_used |-> "web",
   confidence |-> "", sources |-> sources, flags |-> IF success THEN {"success"} ELSE {}]

WebAgentSearchAndAnswer(st, query, cid) ==
  LET searched == Ev(st, "web_search", "web_agent")
      called == Ev(searched, "llm_call", "web_agent")
  IN  \* no results (the search tool gives [] on every failure of its own)
      { Returned(searched, WebAgentResult([text |-> "No pude encontrar informacion",
                                           arg |-> <<>>], <<>>, FALSE)) }
      \* ollama.chat raised
      \cup { Returned(Ev(called, "llm_failed", "web_agent"),
                      WebAgentResult([text |-> "Ocurrio un error al buscar en internet: ",
                                      arg |-> <<e>>], <<>>, FALSE)) : e \in Errors }
      \* answered: the assistant row is written, a failure to write is logged
      \cup UNION { LET done == Ev(called, "generated", "web_agent")
                       ret == WebAgentResult(Generated(a), srcs, TRUE)
                   IN  IF cid = NoConversation THEN {Returned(done, ret)}
                       ELSE { Returned(w.st, ret) :
                              w \in DbAddMessageOutcomes(done, cid, "assistant", a, "web",
                                       [keys |-> {"query", "search_type", "sources",
                                                  "num_results"},
                                        sources |-> srcs], "web_agent") }
                   : a \in Answers, srcs \in SourceLists }

----------------------------------------------------------------------------
(* SpecCrew                                                                *)

ConversationIds == {NoConversation} \cup (1..Len(conversations))

Apply(o) ==
  /\ Len(o.st.messages) <= MaxMessages
  /\ Len(o.st.lc) <= MaxHistory
  /\ messages' = o.st.messages
  /\ lcHistory' = o.st.lc
  /\ conversations' = o.st.conversations
  /\ clock' = o.st.clock
  /\ turnLog' = o.st.log
  /\ result' = IF o.raised THEN [NoResult EXCEPT !.raised = TRUE] ELSE o.ret
  /\ lastQuery' = NoQuery

CrewRouteCall ==
  /\ Idle
  /\ \E um \in UserMessages, cid \in ConversationIds, c \in ClassificationsOf(ModelOutputs) :
       /\ classified' = c
       /\ request' = [op |-> "crew.route", user_message |-> um, conversation_id |-> cid]
       /\ \E o \in CrewRoute(Thread(messages, conversations, lcHistory, clock),
                              um, cid, c) :
            Apply(o)
  /\ UNCHANGED <<indexVars, promptVars, factVars, callVars>>

WebAgentCall ==
  /\ Idle
  /\ \E um \in UserMessages, cid \in ConversationIds :
       /\ request' = [op |-> "web_agent", user_message |-> um, conversation_id |-> cid]
       /\ \E o \in WebAgentSearchAndAnswer(
                     Thread(messages, conversations, lcHistory, clock), um, cid) :
            Apply(o)
  /\ classified' = NoClassification
  /\ UNCHANGED <<indexVars, promptVars, factVars, callVars>>

\* the caller takes the returned record; the next call starts afresh
TakeResult ==
  /\ ~Idle
  /\ request' = NoRequest
  /\ turnLog' = <<>>
  /\ result' = NoResult
  /\ classified' = NoClassification
  /\ UNCHANGED <<indexVars, promptVars, dbVars, lastQuery, lcHistory, factVars, callVars>>

NextCrew ==
  Tick \/ CreateConversation \/ CrewRouteCall \/ WebAgentCall \/ TakeResult

SpecCrew == InitAll /\ [][NextCrew]_vars

----------------------------------------------------------------------------
(* What is claimed of MinervaCrew.route.                                   *)

Happened(ev) == \E i \in 1..Len(turnLog) : turnLog[i].ev = ev
HappenedBy(ev, by) == \E i \in 1..Len(turnLog) : turnLog[i] = [ev |-> ev, by |-> by]

\* C1: whenever the classification call raises, MinervaCrew.route raises
\* nothing and returns a well-formed record (answer, agent_used, confidence,
\* sources) whose agent_used is 'conversational'.
C1_ClassificationFailureIsConversational ==
  (request.op = "crew.route" /\ classified.called /\ classified.raised) =>
    /\ ~result.raised
    /\ result.answer # NoAnswer /\ result.confidence # ""
    /\ result.agent_used = "conversational"

\* C2: route() never lets an exception out, and when the generation of the
\* turn has failed everywhere it was tried the answer is one static apology
\* that does not depend on the error.
C2_FailureAnswerIsStatic ==
  (request.op = "crew.route" /\ Happened("llm_failed")) =>
    /\ ~result.raised
    /\ result.answer.arg = <<>>

\* C7: when the knowledge branch is taken and the document search finds no
\* chunk at or above its threshold, the turn is answered 'not found' with
\* low confidence and the Completion Provider is not asked to generate.
C7_NoChunkNoGeneration ==
  (request.op = "crew.route" /\ classified.intent = "knowledge"
     /\ HappenedBy("tool", "no_results")) =>
    /\ result.confidence = "Baja"
    /\ ~HappenedBy("llm_call", "knowledge")

\* the sources of the most recently appended message that has some
MostRecentSources(rows) ==
  LET with == {i \in 1..Len(rows) : HasSources(rows[i])}
  IN  IF with = {} THEN <<>> ELSE rows[SetMax(with)].extra_metadata.sources

\* C8: a source request returns the sources of the most recent assistant
\* message of the conversation that carries sources, whenever there is one,
\* and says that none was found only when there is none.  Stated for turns
\* that reached the handler and whose database reads succeeded, on conversations whose messages all
\* carry different timestamps.
C8_MostRecentSourcesReturned ==
  (/\ request.op = "crew.route" /\ HappenedBy("source_retrieval", "source_request")
   /\ request.conversation_id # NoConversation
   /\ result.answer.text # "Error recuperando fuentes: "
   /\ DistinctTimestamps(AppendedTo(request.conversation_id))) =>
    LET srcs == MostRecentSources(AppendedTo(request.conversation_id))
    IN  IF srcs = <<>>
        THEN result.answer.text = "No se encontraron fuentes en mensajes recientes"
        ELSE result.answer = [text |-> "Fuentes encontradas:", arg |-> srcs]

\* C11: every MinervaCrew.route call that is given a conversation id and
\* returns an answer of one of its categories (source_request and web
\* included) has written exactly one user message and one assistant message
\* of that turn to the messages table.
C11_AnsweredTurnIsPersisted ==
  (/\ request.op = "crew.route" /\ request.conversation_id # NoConversation
   /\ ~result.raised /\ result.agent_used \notin {"", "error"}) =>
    /\ Cardinality({i \in 1..Len(turnLog) : turnLog[i].ev = "add_user"}) = 1
    /\ Cardinality({i \in 1..Len(turnLog) : turnLog[i].ev = "add_assistant"}) = 1

----------------------------------------------------------------------------
(* DocumentIndexer.search_documents, scores in hundredths.                 *)

\* score_threshold of the searches of KnowledgeAgent and IntelligentRouter
SearchThreshold == 30
\* IntelligentRouter.knowledge_threshold
KnowledgeThreshold == 40

\* what the vector store may hold for the query of a turn, best first
RawHits == {<<>>, <<20>>, <<35>>, <<80, 75>>}

\* the hits at or above the threshold (and none when the search raised)
SearchDocuments(raw, score_threshold) ==
  LET Kept(score) == score >= score_threshold
  IN  SelectSeq(raw, Kept)

RECURSIVE Sum(_)
Sum(s) == IF s = <<>> THEN 0 ELSE Head(s) + Sum(Tail(s))

\* KnowledgeAgent._assess_confidence
AssessConfidence(results) ==
  IF results = <<>> THEN "Baja"
  ELSE IF Sum(results) >= 70 * Len(results) /\ Len(results) >= 2 THEN "Alta"
  ELSE IF Sum(results) >= 50 * Len(results) \/ Len(results) >= 1 THEN "Media"
  ELSE "Baja"

----------------------------------------------------------------------------
(* KnowledgeAgent.answer                                                   *)

AgentResult(op, answer, agent_used, confidence, sources, flags) ==
  [op |-> op, raised |-> FALSE, answer |-> answer, agent_used |-> agent_used,
   confidence |-> confidence, sources |-> sources, flags |-> flags]

NotFound ==
  [text |-> "No encontre informacion relevante en mis documentos sobre eso.",
   arg |-> <<>>]

EmptyAnswer == "no answer from the model"

\* the user message is written first; then the search; then either the
\* 'not found' answer, or the generation and the assistant message.
\* Whatever is raised on the way leaves as AgentExecutionError.  A search
\* whose embedding or index call raised comes back from search_documents
\* as [], like a search that found nothing.
KnowledgeAnswer(st, um, cid, raw) ==
  LET by == "knowledge_agent"
      Written(s, content, metadata, ret) ==
        IF cid = NoConversation THEN { Returned(s, ret) }
        ELSE { IF w.raised THEN w ELSE Returned(w.st, ret) :
               w \in DbAddMessageOutcomes(s, cid, "assistant", content, "knowledge",
                                          metadata, by) }
      AfterSearch(s, search_failed) ==
        LET results == IF search_failed THEN <<>>
                       ELSE SearchDocuments(raw, SearchThreshold)
            confidence == AssessConfidence(results)
            searched == IF search_failed
                        THEN Ev(Ev(s, "retrieval", by), "search_failed", "indexer")
                        ELSE Ev(s, "retrieval", by)
            called == Ev(Ev(searched, "retrieval", by), "llm_call", by)
        IN  IF results = <<>> \/ confidence = "Baja"
            THEN Written(searched, "not_found", NoMetadata,
                         AgentResult("knowledge.answer", NotFound, "knowledge", "Baja",
                                     <<>>, {}))
            ELSE { Raised(Ev(called, "llm_failed", by), e) : e \in Errors }
                 \cup { Raised(Ev(called, "llm_empty", by), EmptyAnswer) }
                 \cup UNION { Written(Ev(called, "generated", by), a,
                                      [keys |-> {"confidence", "num_sources", "collection"},
                                       sources |-> <<>>],
                                      AgentResult("knowledge.answer", Generated(a),
                                                  "knowledge", confidence, results, {}))
                              : a \in Answers }
      started == IF cid = NoConversation THEN { Returned(st, NoResult) }
                 ELSE DbAddMessageOutcomes(st, cid, "user", um, None, NoMetadata, by)
  IN  UNION { IF u.raised THEN {u}
              ELSE AfterSearch(u.st, FALSE) \cup AfterSearch(u.st, TRUE)
              : u \in started }

----------------------------------------------------------------------------
(* ConversationalAgent.chat                                                *)

NoConversationId == "conversation_id es requerido"

LcRow(cid, type, content) == [session |-> cid, type |-> type, content |-> content]

\* memory_service: whether the agent was built with a fact memory.
\* Nothing is written before the generation has given its text; then the
\* user message and the answer go to the SQLChatMessageHistory store.
ConversationalChat(st, um, cid, memory_service) ==
  LET by == "conversational_agent"
      recalled == IF memory_service THEN Ev(st, "fact_recall", by) ELSE st
      called == Ev(Ev(recalled, "history_read", by), "llm_call", by)
      Saved(s, a) ==
        LET user == Ev([s EXCEPT !.lc = Append(@, LcRow(cid, "human", um))],
                       "lc_add_user", by)
            ai == Ev([user EXCEPT !.lc = Append(@, LcRow(cid, "ai", a))],
                     "lc_add_ai", by)
        IN  { Raised(Ev(s, "db_error", by), DbError),
              Raised(Ev(user, "db_error", by), DbError),
              Returned(IF memory_service THEN Ev(ai, "fact_update", by) ELSE ai,
                       AgentResult("conversational.chat", Generated(a), "conversational",
                                   "", <<>>, {})) }
  IN  IF cid = NoConversation
      THEN { Raised(st, NoConversationId) }
      ELSE { Raised(Ev(st, "db_error", by), DbError) }
           \cup { Raised(Ev(called, "llm_failed", by), e) : e \in Errors }
           \cup { Raised(Ev(called, "llm_empty", by), EmptyAnswer) }
           \cup UNION { Saved(Ev(called, "generated", by), a) : a \in Answers }

----------------------------------------------------------------------------
(* IntelligentRouter                                                       *)

\* the messages a routed turn is explored with, and their text
RouterMessages == {"q1", "q2"}
Q_hola ==
  <<"h","o","l","a">>
Q_explica ==
  <<"E","x","p","l","i","c","a"," ","l","a"," ","a","r","q","u","i","t","e","c","t","u","r","a">>
TextOf(um) == IF um = "q1" THEN Q_hola ELSE Q_explica

\* knowledge_keywords
KnowledgeKeywords ==
  { <<"q","u","é"," ","e","s">>,
    <<"c","ó","m","o"," ","f","u","n","c","i","o","n","a">>,
    <<"e","x","p","l","i","c","a">>,
    <<"c","u","á","l"," ","e","s">>,
    <<"d","i","m","e"," ","s","o","b","r","e">>,
    <<"i","n","f","o","r","m","a","c","i","ó","n"," ","s","o","b","r","e">>,
    <<"c","a","r","a","c","t","e","r","í","s","t","i","c","a","s"," ","d","e">>,
    <<"t","e","c","n","o","l","o","g","í","a","s">>,
    <<"a","r","q","u","i","t","e","c","t","u","r","a">>,
    <<"d","o","c","u","m","e","n","t","a","c","i","ó","n">> }

\* _detect_query_patterns: has_knowledge_pattern
DetectQueryPatterns(query) ==
  \E kw \in KnowledgeKeywords : Contains(kw, LowerStr(query))

\* _check_knowledge_base
CheckKnowledgeBase(raw) ==
  LET results == SearchDocuments(raw, SearchThreshold)
  IN  IF results = <<>>
      THEN [has_knowledge |-> FALSE, max_score |-> 0]
      ELSE [has_knowledge |-> TRUE,
            max_score |-> SetMax({results[i] : i \in 1..Len(results)})]

ForceAgents == {None, "knowledge", "conversational"}

Apology ==
  [text |-> "Lo siento, hubo un error procesando tu mensaje.", arg |-> <<>>]

\* IntelligentRouter.route; raw: what the vector store holds for the query
RouterRoute(st, um, cid, force_agent, memory_service, raw) ==
  LET R(answer, agent_used, confidence, sources, flags) ==
        AgentResult("router.route", answer, agent_used, confidence, sources, flags)
      FromKnowledge(s, flags) ==
        { IF k.raised THEN k
          ELSE Returned(k.st, R(k.ret.answer, "knowledge", k.ret.confidence,
                                k.ret.sources, flags))
          : k \in KnowledgeAnswer(s, um, cid, raw) }
      FromChat(s, flags) ==
        { IF c.raised THEN c
          ELSE Returned(c.st, R(c.ret.answer, "conversational", "", <<>>, flags))
          : c \in ConversationalChat(s, um, cid, memory_service) }
      kb == CheckKnowledgeBase(raw)
      checked == Ev(st, "retrieval", "router")
      knowledge ==
        \/ kb.has_knowledge /\ kb.max_score >= KnowledgeThreshold
        \/ DetectQueryPatterns(TextOf(um)) /\ kb.has_knowledge
      body == IF force_agent = "knowledge" THEN FromKnowledge(st, {"routing_reason"})
              ELSE IF force_agent # None THEN FromChat(st, {"routing_reason"})
              ELSE IF knowledge
              THEN FromKnowledge(checked, {"routing_reason", "num_sources", "kb_max_score"})
              ELSE FromChat(IF kb.has_knowledge /\ kb.max_score > SearchThreshold
                            THEN Ev(checked, "retrieval", "router") ELSE checked,
                            {"routing_reason", "had_context", "kb_max_score"})
      Fallback(o) ==
        { IF f.raised
          THEN Returned(f.st, R(Apology, "none", "", <<>>, {"routing_reason", "error"}))
          ELSE Returned(f.st, R(f.ret.answer, "conversational", "", <<>>,
                                {"routing_reason", "error"}))
          : f \in ConversationalChat(Ev(o.st, "fallback", "router"), um, cid,
                                     memory_service) }
  IN  UNION { IF o.raised THEN Fallback(o) ELSE {o} : o \in body }

----------------------------------------------------------------------------
(* SpecRouter                                                              *)

RouterRouteCall ==
  /\ Idle
  /\ \E um \in RouterMessages, cid \in ConversationIds, force_agent \in ForceAgents,
        memory_service \in BOOLEAN, raw \in RawHits :
       /\ request' = [op |-> "router.route", user_message |-> um, conversation_id |-> cid]
       /\ \E o \in RouterRoute(Thread(messages, conversations, lcHistory, clock),
                               um, cid, force_agent, memory_service, raw) :
            Apply(o)
  /\ classified' = NoClassification
  /\ UNCHANGED <<indexVars, promptVars, factVars, callVars>>

NextRouter == Tick \/ CreateConversation \/ RouterRouteCall \/ TakeResult

SpecRouter == InitAll /\ [][NextRouter]_vars

\* C5: a turn that fails (the generation of KnowledgeAgent.answer raising
\* after the user message was stored, the router falling back) leaves no
\* user message without an assistant message paired with it.
C5_NoUserMessageLeftUnpaired ==
  (request.op = "router.route" /\ HappenedBy("llm_failed", "knowledge_agent")) =>
    \A i \in 1..Len(messages) :
      messages[i].role = "user" =>
        \E j \in (i + 1)..Len(messages) :
          /\ messages[j].conversation_id = messages[i].conversation_id
          /\ messages[j].role = "assistant"

\* C9: when the chosen handler fails, route() answers through the
\* conversational path using the history only (no fact recall, no document
\* retrieval) and marks the result with a degraded-confidence flag.
C9_FallbackUsesHistoryOnly ==
  (request.op = "router.route" /\ result.agent_used = "conversational") =>
    \A i \in 1..Len(turnLog) :
      turnLog[i].ev = "fallback" =>
        /\ \A j \in (i + 1)..Len(turnLog) :
             turnLog[j].ev \notin {"fact_recall", "retrieval"}
        /\ result.confidence = "Baja" \/ "degraded" \in result.flags

----------------------------------------------------------------------------
(* SpecHandlers: each handler of a turn called on its own.                 *)

KnowledgeAnswerCall ==
  /\ Idle
  /\ \E um \in UserMessages, cid \in ConversationIds, raw \in RawHits :
       /\ request' = [op |-> "knowledge.answer", user_message |-> um,
                      conversation_id |-> cid]
       /\ \E o \in KnowledgeAnswer(Thread(messages, conversations, lcHistory, clock),
                                   um, cid, raw) :
            Apply(o)
  /\ classified' = NoClassification
  /\ UNCHANGED <<indexVars, promptVars, factVars, callVars>>

ConversationalChatCall ==
  /\ Idle
  /\ \E um \in UserMessages, cid \in ConversationIds, memory_service \in BOOLEAN :
       /\ request' = [op |-> "conversational.chat", user_message |-> um,
                      conversation_id |-> cid]
       /\ \E o \in ConversationalChat(Thread(messages, conversations, lcHistory, clock),
                                      um, cid, memory_service) :
            Apply(o)
  /\ classified' = NoClassification
  /\ UNCHANGED <<indexVars, promptVars, factVars, callVars>>

\* one of MinervaCrew's four handlers, as route dispatches to it
CrewHandlerCall ==
  /\ Idle
  /\ \E um \in UserMessages, cid \in ConversationIds, intent \in KnownLabels :
       /\ request' = [op |-> "crew.handler", user_message |-> um,
                      conversation_id |-> cid]
       /\ \E o \in Dispatch(Thread(messages, conversations, lcHistory, clock),
                            intent, um, cid) :
            Apply(o)
  /\ classified' = NoClassification
  /\ UNCHANGED <<indexVars, promptVars, factVars, callVars>>

NextHandlers ==
  \/ CreateConversation \/ TakeResult
  \/ KnowledgeAnswerCall \/ ConversationalChatCall \/ CrewHandlerCall

SpecHandlers == InitAll /\ [][NextHandlers]_vars

\* positions in the record of the turn
UserWrites == {i \in 1..Len(turnLog) : turnLog[i].ev \in {"add_user", "lc_add_user"}}
AssistantWrites ==
  {i \in 1..Len(turnLog) : turnLog[i].ev \in {"add_assistant", "lc_add_ai"}}
CompletionCalls == {i \in 1..Len(turnLog) : turnLog[i].ev = "llm_call"}
Generations == {i \in 1..Len(turnLog) : turnLog[i].ev = "generated"}

----------------------------------------------------------------------------
(* Mem0Wrapper._validate_memory_quality                                    *)

generic_phrases ==
  { <<"e","l"," ","u","s","u","a","r","i","o"," ","e","s"," ","a","m","a","b","l","e">>,
    <<"e","l"," ","u","s","u","a","r","i","o"," ","e","s"," ","c","o","r","d","i","a","l">>,
    <<"e","l"," ","u","s","u","a","r","i","o"," ","p","r","e","g","u","n","t","a">>,
    <<"e","l"," ","u","s","u","a","r","i","o"," ","s","a","l","u","d","a">>,
    <<"e","l"," ","u","s","u","a","r","i","o"," ","d","i","c","e"," ","h","o","l","a">>,
    <<"e","l"," ","u","s","u","a","r","i","o"," ","e","s","t","á"," ","b","i","e","n">>,
    <<"e","l"," ","u","s","u","a","r","i","o"," ","r","e","s","p","o","n","d","e">>,
    <<"e","l"," ","u","s","u","a","r","i","o"," ","t","i","e","n","e"," ","b","u","e","n","a"," ","a","c","t","i","t","u","d">> }

\* the markers of specific information that count on their own
SpecificMarkers ==
  { <<"s","e"," ","l","l","a","m","a">>,
    <<"v","i","v","e"," ","e","n">>,
    <<"t","r","a","b","a","j","a">>,
    <<"e","s","t","u","d","i","a">>,
    <<"f","a","v","o","r","i","t","o">>,
    <<"p","r","e","f","i","e","r","e">>,
    <<"e","s"," ","d","e">>,
    <<"n","a","c","i","ó">>,
    <<"p","r","o","y","e","c","t","o">>,
    <<"f","a","m","i","l","i","a">>,
    <<"p","r","o","f","e","s","i","ó","n">>,
    <<"h","o","b","b","y">> }

W_tiene ==
  <<"t","i","e","n","e">>
W_anos ==
  <<"a","ñ","o","s">>
W_hijo ==
  <<"h","i","j","o">>
W_proyecto ==
  <<"p","r","o","y","e","c","t","o">>
W_lenguaje ==
  <<"l","e","n","g","u","a","j","e">>
W_programacion ==
  <<"p","r","o","g","r","a","m","a","c","i","ó","n">>
W_que ==
  <<"q","u","é">>
W_como ==
  <<"c","ó","m","o">>

\* the gate without lower()
ValidateMemoryQualityCaseSensitive(memory_text) ==
  LET text == Strip(memory_text)
      has_specifics ==
        \/ \E m \in SpecificMarkers : Contains(m, text)
        \/ /\ Contains(W_tiene, text)
           /\ Contains(W_anos, text) \/ Contains(W_hijo, text) \/ Contains(W_proyecto, text)
        \/ Contains(W_lenguaje, text) /\ Contains(W_programacion, text)
  IN  IF Len(text) < 10 THEN FALSE
      ELSE IF \E phrase \in generic_phrases : Contains(phrase, text) THEN FALSE
      ELSE IF Contains(<<"?">>, text) \/ StartsWith(text, W_que) \/ StartsWith(text, W_como)
      THEN FALSE
      ELSE has_specifics

\* _validate_memory_quality
ValidateMemoryQuality(memory_text) ==
  LET text == Strip(LowerStr(memory_text))
      has_specifics ==
        \/ \E m \in SpecificMarkers : Contains(m, text)
        \/ /\ Contains(W_tiene, text)
           /\ Contains(W_anos, text) \/ Contains(W_hijo, text) \/ Contains(W_proyecto, text)
        \/ Contains(W_lenguaje, text) /\ Contains(W_programacion, text)
  IN  IF Len(text) < 10 THEN FALSE
      ELSE IF \E phrase \in generic_phrases : Contains(phrase, text) THEN FALSE
      ELSE IF Contains(<<"?">>, text) \/ StartsWith(text, W_que) \/ StartsWith(text, W_como)
      THEN FALSE
      ELSE has_specifics

\* memories the library may extract from what it is given
M_vive ==
  <<"E","l"," ","u","s","u","a","r","i","o"," ","v","i","v","e"," ","e","n"," ","M","a","d","r","i","d">>
M_amable ==
  <<"E","l"," ","u","s","u","a","r","i","o"," ","e","s"," ","a","m","a","b","l","e">>
M_hola ==
  <<"H","o","l","a">>
M_pregunta ==
  <<"Q","u","e"," ","l","e","n","g","u","a","j","e"," ","u","s","a","?">>
M_cafe ==
  <<"L","e"," ","g","u","s","t","a"," ","e","l"," ","c","a","f","e">>
Mem0Candidates == {M_vive, M_amable, M_hola, M_pregunta, M_cafe}

\* the gate called on a candidate
GatePrefixes == { <<>>, <<" "," ">>, <<"¿">> }
GateSuffixes == { <<>>, <<"?">>, <<" ","\n">>, <<".">> }
GateCores ==
  { M_vive, M_amable, M_hola, M_pregunta, M_cafe,
    <<>>,
    <<"V","i","v","e"," ","e","n"," ","A">>,
    <<"v","i","v","e"," ","e","n">>,
    <<"Q","u","é"," ","p","r","o","y","e","c","t","o"," ","t","i","e","n","e">>,
    <<"C","Ó","M","O"," ","s","e"," ","l","l","a","m","a"," ","s","u"," ","h","i","j","o">>,
    <<"c","o","m","o"," ","s","e"," ","l","l","a","m","a">>,
    <<"E","l"," ","U","s","u","a","r","i","o"," ","S","A","L","U","D","A">>,
    <<"E","l"," ","u","s","u","a","r","i","o"," ","e","s"," ","a","m","a","b","l","e"," ","y"," ","v","i","v","e"," ","e","n"," ","M","a","d","r","i","d">>,
    <<"T","i","e","n","e"," ","3","0"," ","a","ñ","o","s">>,
    <<"T","i","e","n","e"," ","u","n"," ","g","a","t","o">>,
    <<"S","u"," ","l","e","n","g","u","a","j","e"," ","d","e"," ","p","r","o","g","r","a","m","a","c","i","ó","n"," ","e","s"," ","P","y","t","h","o","n">>,
    <<"S","e"," ","l","l","a","m","a"," ","A","n","a">>,
    <<"N","a","c","i","ó"," ","e","n"," ","1","9","9","0">> }

GateCandidates ==
  { pre \o core \o post : pre \in GatePrefixes, core \in GateCores, post \in GateSuffixes }

ValidateMemoryQualityCall ==
  /\ \E memory_text \in GateCandidates :
       gate' = [called |-> TRUE, memory_text |-> memory_text,
                valid |-> ValidateMemoryQuality(memory_text)]
  /\ UNCHANGED <<indexVars, promptVars, dbVars, lastQuery, turnVars, lcHistory, factVars, parsed, chunked>>

NextGate == ValidateMemoryQualityCall

SpecGate == InitAll /\ [][NextGate]_vars

\* C15: the gate rejects every candidate shorter than 10 characters, every
\* candidate that holds a question mark or begins, case and leading
\* whitespace aside, with "qué" or "cómo", and every candidate that holds,
\* case aside, one of the generic courtesy phrases; it accepts
\* "El usuario vive en Madrid".
C15_GateRejectsShortQuestionGeneric ==
  gate.called =>
    LET candidate == gate.memory_text
    IN  /\ Len(candidate) < 10 => ~gate.valid
        /\ (\E i \in 1..Len(candidate) : candidate[i] = "?") => ~gate.valid
        /\ (\E w \in {W_que, W_como} : StartsWith(LStrip(LowerStr(candidate)), w))
             => ~gate.valid
        /\ (\E phrase \in generic_phrases : Contains(phrase, LowerStr(candidate)))
             => ~gate.valid
        /\ candidate = M_vive => gate.valid

\* the known-good example was given to the gate and accepted
C15_Witness ==
  /\ gate.called
  /\ gate.memory_text = M_vive
  /\ gate.valid

----------------------------------------------------------------------------
(* Mem0Wrapper.add_message / add_conversation                              *)

\* what one Memory.add call extracts and persists: some memories, or none
\* when it raises
Mem0Extractions == { e \in SUBSET Mem0Candidates : Cardinality(e) <= 2 }

\* the candidates that _validate_memory_quality accepts
ValidCandidates == {m \in Mem0Candidates : ValidateMemoryQuality(m)}

\* memory.add has persisted what it extracted when the wrapper looks at the
\* result; the wrapper then counts and logs the valid ones
Mem0Add(store, extracted, op) ==
  [store |-> store \cup extracted,
   log |-> [op |-> op, candidates |-> extracted,
            valid_count |-> Cardinality(extracted \cap ValidCandidates)]]

Mem0AddMessage ==
  /\ \E extracted \in Mem0Extractions :
       LET done == Mem0Add(mem0Store, extracted, "add_message")
       IN  /\ Cardinality(done.store) <= MaxMemories
           /\ mem0Store' = done.store
           /\ factLog' = done.log
  /\ lastRecall' = NoRecall
  /\ UNCHANGED <<indexVars, promptVars, dbVars, lastQuery, turnVars, lcHistory, qdrantFacts, pending,
                 message_count, simpleFacts, extraction_prompt, extraction_interval,
                 extraction, callVars>>

Mem0AddConversation ==
  /\ \E extracted \in Mem0Extractions :
       LET done == Mem0Add(mem0Store, extracted, "add_conversation")
       IN  /\ Cardinality(done.store) <= MaxMemories
           /\ mem0Store' = done.store
           /\ factLog' = done.log
  /\ lastRecall' = NoRecall
  /\ UNCHANGED <<indexVars, promptVars, dbVars, lastQuery, turnVars, lcHistory, qdrantFacts, pending,
                 message_count, simpleFacts, extraction_prompt, extraction_interval,
                 extraction, callVars>>

----------------------------------------------------------------------------
(* json.loads, for the JSON a model answers in: objects, arrays, strings   *)
(* without escapes, integers, true / false / null, and whitespace.         *)
(* A value is [t, s, items]: its type, its characters (str, num, bool),    *)
(* its elements (arr) or its key/value pairs in order (obj).               *)

JNull == [t |-> "null", s |-> <<>>, items |-> <<>>]
JArray(items) == [t |-> "arr", s |-> <<>>, items |-> items]
JObject(items) == [t |-> "obj", s |-> <<>>, items |-> items]
JFail == [ok |-> FALSE, pos |-> 0, val |-> JNull]
JOk(pos, val) == [ok |-> TRUE, pos |-> pos, val |-> val]

Digits == {"0","1","2","3","4","5","6","7","8","9"}

RECURSIVE SkipWs(_, _)
SkipWs(s, p) == IF p <= Len(s) /\ IsSpace(s[p]) THEN SkipWs(s, p + 1) ELSE p

\* the characters of lit stand at position p
At(s, p, lit) == p + Len(lit) - 1 <= Len(s) /\ SubSeq(s, p, p + Len(lit) - 1) = lit

ParseString(s, p) ==
  LET closing == {i \in (p + 1)..Len(s) : s[i] = "\""}
  IN  IF p > Len(s) \/ s[p] # "\"" \/ closing = {} THEN JFail
      ELSE LET q == SetMin(closing)
               body == SubSeq(s, p + 1, q - 1)
           IN  IF \E i \in 1..Len(body) : body[i] \in {"\n", "\t", "\r"}
               THEN JFail
               ELSE JOk(q + 1, [t |-> "str", s |-> body, items |-> <<>>])

RECURSIVE DigitsEnd(_, _)
DigitsEnd(s, p) == IF p <= Len(s) /\ s[p] \in Digits THEN DigitsEnd(s, p + 1) ELSE p

ParseNumber(s, p) ==
  LET d == IF p <= Len(s) /\ s[p] = "-" THEN p + 1 ELSE p
      e == IF d <= Len(s) /\ s[d] = "0" THEN d + 1 ELSE DigitsEnd(s, d)
  IN  IF e = d THEN JFail
      ELSE JOk(e, [t |-> "num", s |-> SubSeq(s, p, e - 1), items |-> <<>>])

RECURSIVE ParseValue(_, _), ParseElements(_, _, _), ParseMembers(_, _, _)
ParseValue(s, p) ==
  IF p > Len(s) THEN JFail
  ELSE IF s[p] = "\"" THEN ParseString(s, p)
  ELSE IF s[p] = "["
       THEN LET q == SkipWs(s, p + 1)
            IN  IF q <= Len(s) /\ s[q] = "]" THEN JOk(q + 1, JArray(<<>>))
                ELSE ParseElements(s, q, <<>>)
  ELSE IF s[p] = "{"
       THEN LET q == SkipWs(s, p + 1)
            IN  IF q <= Len(s) /\ s[q] = "}" THEN JOk(q + 1, JObject(<<>>))
                ELSE ParseMembers(s, q, <<>>)
  ELSE IF At(s, p, <<"n","u","l","l">>) THEN JOk(p + 4, JNull)
  ELSE IF At(s, p, <<"t","r","u","e">>)
       THEN JOk(p + 4, [t |-> "bool", s |-> <<"T","r","u","e">>, items |-> <<>>])
  ELSE IF At(s, p, <<"f","a","l","s","e">>)
       THEN JOk(p + 5, [t |-> "bool", s |-> <<"F","a","l","s","e">>, items |-> <<>>])
  ELSE ParseNumber(s, p)

\* value (',' value)* ']'
ParseElements(s, p, acc) ==
  LET v == ParseValue(s, p)
  IN  IF ~v.ok THEN JFail
      ELSE LET q == SkipWs(s, v.pos)
               items == Append(acc, v.val)
           IN  IF q > Len(s) THEN JFail
               ELSE IF s[q] = "]" THEN JOk(q + 1, JArray(items))
               ELSE IF s[q] = "," THEN ParseElements(s, SkipWs(s, q + 1), items)
               ELSE JFail

\* string ':' value (',' string ':' value)* '}'
ParseMembers(s, p, acc) ==
  LET k == ParseString(s, p)
      c == SkipWs(s, k.pos)
      v == ParseValue(s, SkipWs(s, c + 1))
      q == SkipWs(s, v.pos)
      items == Append(acc, [k |-> k.val.s, v |-> v.val])
  IN  IF ~k.ok THEN JFail
      ELSE IF c > Len(s) \/ s[c] # ":" THEN JFail
      ELSE IF ~v.ok THEN JFail
      ELSE IF q > Len(s) THEN JFail
      ELSE IF s[q] = "}" THEN JOk(q + 1, JObject(items))
      ELSE IF s[q] = "," THEN ParseMembers(s, SkipWs(s, q + 1), items)
      ELSE JFail

\* json.loads(s): one value between optional whitespace, or JSONDecodeError
json_loads(s) ==
  LET v == ParseValue(s, SkipWs(s, 1))
  IN  IF v.ok /\ SkipWs(s, v.pos) = Len(s) + 1
      THEN [ok |-> TRUE, val |-> v.val]
      ELSE [ok |-> FALSE, val |-> JNull]

\* key in d
HasKey(d, key) == \E i \in 1..Len(d.items) : d.items[i].k = key

\* d.get(key, default): of a repeated key the last value is kept
DictGet(d, key, default) ==
  LET hits == {i \in 1..Len(d.items) : d.items[i].k = key}
  IN  IF hits = {} THEN default ELSE d.items[SetMax(hits)].v

----------------------------------------------------------------------------
(* FactExtractor._parse_facts_json                                         *)

K_facts == <<"f","a","c","t","s">>
K_category == <<"c","a","t","e","g","o","r","y">>
K_fact == <<"f","a","c","t">>

NoFacts == [raised |-> FALSE, err |-> "", facts |-> <<>>]

\* facts = data.get('facts', []) and the loop that validates the structure.
\* data.get exists on a dict only; the loop needs an iterable, and the
\* characters of a str or the keys of a dict are never dicts.
ValidFacts(data) ==
  LET facts == DictGet(data, K_facts, JArray(<<>>))
      Kept(f) == f.t = "obj" /\ HasKey(f, K_category) /\ HasKey(f, K_fact)
      kept == SelectSeq(facts.items, Kept)
  IN  IF data.t # "obj"
      THEN [raised |-> TRUE, err |-> "AttributeError", facts |-> <<>>]
      ELSE IF facts.t \in {"num", "null", "bool"}
      THEN [raised |-> TRUE, err |-> "TypeError", facts |-> <<>>]
      ELSE IF facts.t # "arr" THEN NoFacts
      ELSE [raised |-> FALSE, err |-> "",
            facts |-> [i \in 1..Len(kept) |->
                         [category |-> DictGet(kept[i], K_category, JNull),
                          fact |-> DictGet(kept[i], K_fact, JNull)]]]

\* raw_output.find('{') and raw_output.rfind('}') + 1, counted from 1: zero
\* when the character does not occur
FindOpen(raw_output) ==
  LET at == {i \in 1..Len(raw_output) : raw_output[i] = "{"}
  IN  IF at = {} THEN 0 ELSE SetMin(at)

FindClose(raw_output) ==
  LET at == {i \in 1..Len(raw_output) : raw_output[i] = "}"}
  IN  IF at = {} THEN 0 ELSE SetMax(at)

\* The first try catches json.JSONDecodeError only; the second try, inside
\* that handler, catches every Exception.
OutermostSpan(raw_output) ==
  LET start == FindOpen(raw_output)
      end == FindClose(raw_output)
  IN  IF start # 0 /\ end >= start THEN SubSeq(raw_output, start, end) ELSE <<>>

ParseFactsJson(raw_output) ==
  LET direct == json_loads(raw_output)
      again == json_loads(OutermostSpan(raw_output))
  IN  IF direct.ok THEN ValidFacts(direct.val)
      ELSE IF again.ok /\ ~ValidFacts(again.val).raised THEN ValidFacts(again.val)
      ELSE NoFacts

\* what the model may answer
Q(s) == <<"\"">> \o s \o <<"\"">>
FactJson(category, fact) ==
  <<"{">> \o Q(K_category) \o <<":"," ">> \o Q(category) \o <<","," ">>
          \o Q(K_fact) \o <<":"," ">> \o Q(fact) \o <<"}">>
FactsJson(list) == <<"{">> \o Q(K_facts) \o <<":"," ","[">> \o list \o <<"]","}">>

C_personal ==
  <<"p","e","r","s","o","n","a","l">>
C_saludo ==
  <<"s","a","l","u","d","o">>
F_vive ==
  <<"v","i","v","e"," ","e","n"," ","M","a","d","r","i","d">>
F_hola ==
  <<"h","o","l","a">>

J_vive == FactJson(C_personal, F_vive)
J_hola == FactJson(C_saludo, F_hola)

\* answers that are the JSON asked for
FactOutputs ==
  { FactsJson(<<>>),
    FactsJson(J_vive),
    FactsJson(J_hola),
    FactsJson(J_vive \o <<","," ">> \o J_hola),
    FactsJson(J_vive \o <<",","\n"," ">> \o J_vive) }

\* answers that are something else
OtherOutputs ==
  { <<>>,
    <<"N","I","N","G","U","N","O">>,
    <<"[","]">>,
    <<"4","2">>,
    <<"n","u","l","l">>,
    <<"\"","h","o","l","a","\"">>,
    <<"{","\"","f","a","c","t","s","\"",":"," ","n","u","l","l","}">>,
    <<"{","\"","f","a","c","t","s","\"",":"," ","5","}">>,
    <<"{","\"","f","a","c","t","s","\"",":"," ","\"","a","b","c","\"","}">>,
    <<"{","\"","h","e","c","h","o","s","\"",":"," ","[","]","}">>,
    <<"{","\"","f","a","c","t","s","\"",":"," ","[">> \o J_vive,
    FactsJson(<<"{","\"","c","a","t","e","g","o","r","y","\"",":"," ","\"","p","e","r","s","o","n","a","l","\"","}",","," ","\"","x","\"",","," ">> \o J_vive),
    <<"{","\"","f","a","c","t","s","\"",":"," ","[","]",","," ","\"","f","a","c","t","s","\"",":"," ","[">> \o J_hola \o <<"]","}">> }

Prefixes == { <<>>, <<"H","e","c","h","o","s",":"," ">> }
Suffixes == { <<>>, <<" ","F","i","n",".">>, <<"\n">> }

RawOutputs ==
  { pre \o body \o post :
      pre \in Prefixes, body \in FactOutputs \cup OtherOutputs, post \in Suffixes }

ParseFactsJsonCall ==
  /\ \E raw_output \in RawOutputs :
       LET r == ParseFactsJson(raw_output)
       IN  parsed' = [called |-> TRUE, raw_output |-> raw_output, raised |-> r.raised,
                      err |-> r.err, facts |-> r.facts]
  /\ UNCHANGED <<indexVars, promptVars, dbVars, lastQuery, turnVars, lcHistory, factVars, gate, chunked>>

NextParse == ParseFactsJsonCall

SpecParse == InitAll /\ [][NextParse]_vars

\* C14: _parse_facts_json raises for no model output, and gives zero facts
\* whenever neither the output nor its outermost {...} span is a JSON object
\* with a list under 'facts'.
C14_ParseNeverRaises ==
  parsed.called =>
    /\ ~parsed.raised
    /\ LET direct == json_loads(parsed.raw_output)
           span == json_loads(OutermostSpan(parsed.raw_output))
           FactList(j) == /\ j.ok /\ j.val.t = "obj"
                          /\ DictGet(j.val, K_facts, JNull).t = "arr"
       IN  (~FactList(direct) /\ ~FactList(span)) => parsed.facts = <<>>

----------------------------------------------------------------------------
(* FactMemoryService                                                       *)

\* str.format(conversation=...) on the prompt template, as far as raising
\* goes: '{{' and '}}' are literal braces, '{conversation}' is the one field
\* that has a value, any other field is a lookup error and a brace without
\* its partner a ValueError.
RECURSIVE FormatRaises(_, _)
FormatRaises(template, from) ==
  LET braces == {j \in from..Len(template) : template[j] \in {"{", "}"}}
      i == SetMin(braces)
  IN  IF braces = {} THEN ""
      ELSE IF At(template, i, <<"{", "{">>) \/ At(template, i, <<"}", "}">>)
      THEN FormatRaises(template, i + 2)
      ELSE IF template[i] = "}" THEN "ValueError"
      ELSE IF At(template, i, <<"{","c","o","n","v","e","r","s","a","t","i","o","n","}">>)
      THEN FormatRaises(template, i + 14)
      ELSE IF \E j \in (i + 1)..Len(template) : template[j] = "}"
      THEN "KeyError"
      ELSE "ValueError"

\* str(value), as the f-string renders what the model put under a key
PyStr(v) ==
  CASE v.t \in {"str", "num", "bool"} -> v.s
    [] v.t = "null" -> <<"N","o","n","e">>

\* f"[{category}] {fact}"
FactText(fact_data) ==
  <<"[">> \o PyStr(fact_data.category) \o <<"]", " ">> \o PyStr(fact_data.fact)

\* what the Completion Provider may answer to the extraction prompt
ExtractorOutputs ==
  { FactsJson(<<>>),
    FactsJson(J_vive),
    FactsJson(J_hola) \o <<"\n">>,
    <<"H","e","c","h","o","s",":"," ">> \o FactsJson(J_vive \o <<",","\n"," ">> \o J_vive),
    <<"[","]">> }

\* the facts whose embedding was generated, in order: any of them may fail
RECURSIVE Embedded(_)
Embedded(facts) ==
  IF facts = <<>> THEN {<<>>}
  ELSE LET rest == Embedded(Tail(facts))
       IN  rest \cup { <<FactText(Head(facts))>> \o r : r \in rest }

\* FactExtractor.extract_facts, after the prompt was built: the facts it
\* returns and the step that failed, if one did.  Every exception from the
\* request on is caught and gives [].
ExtractFacts ==
  { [facts |-> <<>>, failed |-> {"completion"}] }
  \cup { LET r == ParseFactsJson(Strip(raw_output))
         IN  IF r.raised THEN [facts |-> <<>>, failed |-> {"parse"}]
             ELSE [facts |-> r.facts, failed |-> {}]
         : raw_output \in ExtractorOutputs }

\* the rest of _extract_and_store_facts: the batch that add_texts stored
\* and the steps that failed.  An embedding that fails leaves its fact
\* out; add_texts stores the whole batch or raises.
StoredBatches ==
  UNION {
    UNION {
      { [batch |-> texts,
         failed |-> e.failed \cup (IF Len(texts) < Len(e.facts)
                                   THEN {"embedding"} ELSE {})] }
      \cup (IF texts = <<>> THEN {}
            ELSE { [batch |-> <<>>, failed |-> {"upsert"}] })
      : texts \in Embedded(e.facts) }
    : e \in ExtractFacts }

\* whether str.format raises on the templates a FactExtractor may hold
PromptRaises ==
  [prompt \in {DefaultPrompt, DbPrompt} |-> FormatRaises(prompt, 1) # ""]

\* _extract_and_store_facts on a buffer that is not empty: what is left in
\* the buffer, what the collection holds, and whether the exception of a
\* prompt that cannot be formatted went through (extract_facts builds the
\* prompt before its try).
ExtractAndStoreFacts(buffer, stored, prompt) ==
  IF PromptRaises[prompt]
  THEN { [pending |-> buffer, stored |-> stored, raised |-> TRUE,
          failed |-> {"prompt"}, batch |-> <<>>] }
  ELSE { [pending |-> <<>>, stored |-> stored \o b.batch, raised |-> FALSE,
          failed |-> b.failed, batch |-> b.batch] : b \in StoredBatches }

\* add_exchange.  An exchange carries its ordinal, so that the order of the
\* exchanges given to an extraction can be told.
AddExchange ==
  /\ message_count < MaxExchanges
  /\ message_count' = message_count + 1
  /\ \E um \in UserMessages, am \in Answers :
       LET buffer == Append(pending, [user |-> um, ai |-> am, n |-> message_count + 1])
       IN  IF (message_count + 1) % extraction_interval = 0
           THEN \E o \in ExtractAndStoreFacts(buffer, qdrantFacts, extraction_prompt) :
                  /\ pending' = o.pending
                  /\ qdrantFacts' = o.stored
                  /\ extraction' = [called |-> TRUE, triggered |-> TRUE, given |-> buffer,
                                    raised |-> o.raised, failed |-> o.failed,
                                    batch |-> o.batch]
           ELSE /\ pending' = buffer
                /\ qdrantFacts' = qdrantFacts
                /\ extraction' = [called |-> TRUE, triggered |-> FALSE, given |-> buffer,
                                  raised |-> FALSE, failed |-> {}, batch |-> <<>>]
  /\ lastRecall' = NoRecall
  /\ UNCHANGED <<indexVars, promptVars, dbVars, lastQuery, turnVars, lcHistory, mem0Store, factLog, simpleFacts,
                 extraction_prompt, extraction_interval, callVars>>

----------------------------------------------------------------------------
(* recall: FactMemoryService.get_relevant_facts, SimpleMemoryService       *)
(* remember / recall, Mem0Wrapper.search                                   *)

\* result['score'] > 0.5, in hundredths
MinSimilarity == 50

RecallQueries == {"donde vivo", "hola"}

\* the recalls that are made: a query and a limit
RecallCalls == { <<"donde vivo", 2>>, <<"hola", 1>> }

\* cosine similarity of the embeddings of a query and a stored text, in
\* hundredths: what the embedding model gives for the texts of this model
Similarity(query, text) ==
  IF query = "donde vivo"
  THEN IF Contains(<<"m","a","d","r","i","d">>, LowerStr(text)) THEN 82
       ELSE IF Contains(<<"u","s","u","a","r","i","o">>, LowerStr(text)) THEN 50
       ELSE 31
  ELSE IF Contains(<<"h","o","l","a">>, LowerStr(text)) THEN 95 ELSE 12

\* the n points of a collection nearest to the query with their scores,
\* nearest first; of two points with one score the older is first
Nearest(store, query, n) ==
  LET Score(i) == Similarity(query, store[i])
      Rank(i) == 1 + Cardinality({j \in 1..Len(store) :
                                    \/ Score(j) > Score(i)
                                    \/ Score(j) = Score(i) /\ j < i})
  IN  [r \in 1..n |->
         LET i == CHOOSE k \in 1..Len(store) : Rank(k) = r
         IN  [text |-> store[i], score |-> Score(i)]]

\* a search that may miss the last of the nearest points
VectorSearchMayMissOne(store, query, limit) ==
  LET n == IF limit < Len(store) THEN limit ELSE Len(store)
  IN  { Nearest(store, query, n), Nearest(store, query, IF n > 0 THEN n - 1 ELSE 0) }

\* VectorMemory.search: the limit nearest points of the collection.  The
\* set of the result lists the index may give: one.
VectorSearch(store, query, limit) ==
  { Nearest(store, query, IF limit < Len(store) THEN limit ELSE Len(store)) }

\* the record of a recall: of the second of two recalls with the same
\* arguments and no ingest in between, what the first gave is kept
Recalled(op, query, limit, failed, hits) ==
  LET again == lastRecall.op = op /\ lastRecall.query = query /\ lastRecall.limit = limit
  IN  [op |-> op, query |-> query, limit |-> limit, failed |-> failed, hits |-> hits,
       nth |-> IF again THEN 2 ELSE 1,
       prev_failed |-> IF again THEN lastRecall.failed ELSE FALSE,
       prev_hits |-> IF again THEN lastRecall.hits ELSE <<>>]

\* facts[:limit]
Take(s, n) == SubSeq(s, 1, IF n < Len(s) THEN n ELSE Len(s))

\* get_relevant_facts: the embedding or the search may raise, which gives
\* []; every stored point of this collection has type 'fact' and a text
GetRelevantFacts ==
  /\ \E call \in RecallCalls :
       LET query == call[1]
           limit == call[2]
       IN  \/ lastRecall' = Recalled("get_relevant_facts", query, limit, TRUE, <<>>)
           \/ \E results \in VectorSearch(qdrantFacts, query, limit * 2) :
                lastRecall' = Recalled("get_relevant_facts", query, limit, FALSE,
                                       Take(results, limit))
  /\ UNCHANGED <<indexVars, promptVars, dbVars, lastQuery, turnVars, lcHistory, mem0Store, qdrantFacts, pending,
                 message_count, factLog, simpleFacts, extraction_prompt,
                 extraction_interval, extraction, callVars>>

\* what SimpleMemoryService._extract_facts may give for a text
SimpleExtractions == { <<>>, <<M_vive>>, <<M_amable>>, <<M_vive, M_amable>> }

\* the facts of a list that were embedded and stored: any of them may fail
RECURSIVE Saved(_)
Saved(facts) ==
  IF facts = <<>> THEN {<<>>}
  ELSE LET rest == Saved(Tail(facts))
       IN  rest \cup { <<Head(facts)>> \o r : r \in rest }

\* SimpleMemoryService.remember
SimpleRemember ==
  /\ \E facts \in SimpleExtractions :
       \E saved_facts \in Saved(facts) :
         /\ Len(simpleFacts) + Len(saved_facts) <= MaxSimpleFacts
         /\ simpleFacts' = simpleFacts \o saved_facts
  /\ lastRecall' = NoRecall
  /\ UNCHANGED <<indexVars, promptVars, dbVars, lastQuery, turnVars, lcHistory, mem0Store, qdrantFacts, pending,
                 message_count, factLog, extraction_prompt, extraction_interval, extraction, callVars>>

\* SimpleMemoryService.recall
SimpleRecall ==
  /\ \E call \in RecallCalls :
       LET query == call[1]
           limit == call[2]
       IN  \/ lastRecall' = Recalled("recall", query, limit, TRUE, <<>>)
           \/ \E results \in VectorSearch(simpleFacts, query, limit) :
                lastRecall' = Recalled("recall", query, limit, FALSE,
                                       SelectSeq(results, LAMBDA r : r.score > MinSimilarity))
  /\ UNCHANGED <<indexVars, promptVars, dbVars, lastQuery, turnVars, lcHistory, mem0Store, qdrantFacts, pending,
                 message_count, factLog, simpleFacts, extraction_prompt,
                 extraction_interval, extraction, callVars>>

\* the memories of mem0 in the order of their ids
Mem0Order == <<M_vive, M_amable, M_hola, M_pregunta, M_cafe>>

\* Mem0Wrapper.search: what Memory.search gives, or [] when it raises
Mem0Search ==
  /\ \E call \in RecallCalls :
       LET query == call[1]
           limit == call[2]
       IN  \/ lastRecall' = Recalled("mem0.search", query, limit, TRUE, <<>>)
           \/ \E results \in VectorSearch(SelectSeq(Mem0Order, LAMBDA m : m \in mem0Store),
                                          query, limit) :
                lastRecall' = Recalled("mem0.search", query, limit, FALSE, results)
  /\ UNCHANGED <<indexVars, promptVars, dbVars, lastQuery, turnVars, lcHistory, mem0Store, qdrantFacts, pending,
                 message_count, factLog, simpleFacts, extraction_prompt,
                 extraction_interval, extraction, callVars>>

NextFacts == Mem0AddMessage \/ Mem0AddConversation \/ AddExchange

SpecFacts == InitAll /\ [][NextFacts]_vars

NextMemory == AddExchange \/ GetRelevantFacts \/ SimpleRemember \/ SimpleRecall

SpecMemory == InitMemory /\ [][NextMemory]_vars

NextRecall == AddExchange \/ GetRelevantFacts \/ Mem0AddMessage \/ Mem0Search

SpecRecall == InitAll /\ [][NextRecall]_vars

\* C12: when an extraction fails at any step, add_exchange still returns
\* without raising and the buffer is empty afterwards: the buffered
\* exchanges are dropped.
C12_FailedExtractionIsSkipped ==
  (extraction.triggered /\ extraction.failed # {}) =>
    /\ ~extraction.raised
    /\ pending = <<>>

\* C13: extraction is triggered exactly when the buffer reaches
\* extraction_interval exchanges, and is given exactly the exchanges added
\* since the previous extraction, in the order they were added.
C13_ExtractionEveryNExchanges ==
  extraction.called =>
    /\ extraction.triggered <=> Len(extraction.given) = extraction_interval
    /\ extraction.triggered =>
         /\ \A i \in 1..Len(extraction.given) :
              extraction.given[i].n = message_count - Len(extraction.given) + i

\* C16: a batch never persists the same fact text twice.
C16_NoDuplicateInBatch ==
  extraction.triggered =>
    \A i, j \in 1..Len(extraction.batch) :
      i # j => extraction.batch[i] # extraction.batch[j]

\* C17: a recall returns at most limit facts, every one of them with a
\* similarity score at or above the minimum similarity score, ordered by
\* descending score.
C17_RecallAboveMinimumScore ==
  lastRecall.op \in {"get_relevant_facts", "recall"} =>
    /\ Len(lastRecall.hits) <= lastRecall.limit
    /\ \A i \in 1..Len(lastRecall.hits) : lastRecall.hits[i].score >= MinSimilarity
    /\ \A i, j \in 1..Len(lastRecall.hits) :
         i < j => lastRecall.hits[i].score >= lastRecall.hits[j].score

C3_PersistedFactsPassedTheGate ==
  /\ \A m \in mem0Store : ValidateMemoryQuality(m)
  /\ \A i \in 1..Len(qdrantFacts) : ValidateMemoryQuality(qdrantFacts[i])

----------------------------------------------------------------------------
(* DocumentProcessor._create_chunks                                        *)

\* settings.CHUNK_SIZE, settings.CHUNK_OVERLAP
CHUNK_SIZE == 500
CHUNK_OVERLAP == 50

\* the window before the end of a chunk in which a space or a period is
\* looked for
CutWindow == 50

\* s[a:b] with Python's reading of negative and out-of-range indices
PySlice(s, a, b) ==
  LET n == Len(s)
      Clamp(i) == IF i < 0 THEN (IF n + i < 0 THEN 0 ELSE n + i)
                  ELSE IF i > n THEN n ELSE i
  IN  IF Clamp(a) >= Clamp(b) THEN <<>> ELSE SubSeq(s, Clamp(a) + 1, Clamp(b))

\* s.rfind(c): the index, from 0, of the last c, or -1
RFind(s, c) ==
  LET at == {i \in 1..Len(s) : s[i] = c}
  IN  IF at = {} THEN -1 ELSE SetMax(at) - 1

\* DocumentProcessor.__init__: chunk_size or settings.CHUNK_SIZE,
\* chunk_overlap or settings.CHUNK_OVERLAP (None and 0 are both false)
DocumentProcessorInit(chunk_size, chunk_overlap) ==
  [chunk_size |-> IF chunk_size = 0 THEN CHUNK_SIZE ELSE chunk_size,
   chunk_overlap |-> IF chunk_overlap = 0 THEN CHUNK_OVERLAP ELSE chunk_overlap]

\* where the chunk that starts at start ends
ChunkEnd(text, chunk_size, start) ==
  LET end == start + chunk_size
      cut_window == PySlice(text, end - CutWindow, end)
      last_space == RFind(cut_window, " ")
      last_period == RFind(cut_window, ".")
      cut_pos == IF last_space > last_period THEN last_space ELSE last_period
  IN  IF end < Len(text) /\ cut_pos # -1 THEN end - CutWindow + cut_pos + 1 ELSE end

\* the while loop; starts: the window start of every iteration so far.  A
\* start that was seen before comes again for ever: the call does not
\* return.
RECURSIVE CreateChunksFrom(_, _, _, _, _, _)
CreateChunksFrom(text, chunk_size, chunk_overlap, start, starts, chunks) ==
  IF ~(start < Len(text))
  THEN [returned |-> TRUE, chunks |-> chunks, starts |-> starts]
  ELSE IF \E i \in 1..Len(starts) : starts[i] = start
  THEN [returned |-> FALSE, chunks |-> chunks, starts |-> Append(starts, start)]
  ELSE LET end == ChunkEnd(text, chunk_size, start)
           chunk_text == Strip(PySlice(text, start, end))
           chunk == [text |-> chunk_text, chunk_index |-> Len(chunks),
                     char_start |-> start, char_end |-> end]
       IN  CreateChunksFrom(text, chunk_size, chunk_overlap, end - chunk_overlap,
                            Append(starts, start),
                            IF chunk_text # <<>> THEN Append(chunks, chunk) ELSE chunks)

CreateChunks(text, chunk_size, chunk_overlap) ==
  CreateChunksFrom(text, chunk_size, chunk_overlap, 0, <<>>, <<>>)

\* documents: letters that change with the position, and white space or
\* periods where the pattern puts them
TextPatterns == {"letters", "words", "sentences", "blank", "tail", "one space"}
TextLengths == {0, 40, 130, 480, 960, 1200}

DocumentText(pattern, n) ==
  [i \in 1..n |->
     LET letter == LowerChars[((i - 1) % 26) + 1]
     IN  CASE pattern = "letters" -> letter
           [] pattern = "words" -> IF i % 7 = 0 THEN " " ELSE letter
           [] pattern = "sentences" ->
                IF i % 40 = 39 THEN "." ELSE IF i % 40 = 0 THEN " " ELSE letter
           [] pattern = "blank" -> IF i % 80 = 0 THEN "\n" ELSE " "
           [] pattern = "tail" -> IF 2 * i > n THEN "\n" ELSE letter
           [] pattern = "one space" -> IF i = 11 THEN " " ELSE letter]

\* the arguments a DocumentProcessor is built with (0: not given)
ChunkConfigs == { <<0, 0>>, <<200, 20>>, <<100, 0>>, <<60, 20>> }

\* every call of this model with what it gives
CreateChunksCalls ==
  { LET text == DocumentText(pattern, n)
        self == DocumentProcessorInit(config[1], config[2])
        done == CreateChunks(text, self.chunk_size, self.chunk_overlap)
    IN  [called |-> TRUE, text |-> text, chunk_size |-> self.chunk_size,
         chunk_overlap |-> self.chunk_overlap,
         returned |-> done.returned, chunks |-> done.chunks, starts |-> done.starts]
    : pattern \in TextPatterns, n \in TextLengths, config \in ChunkConfigs }

CreateChunksCall ==
  /\ chunked' \in CreateChunksCalls
  /\ UNCHANGED <<indexVars, promptVars, dbVars, lastQuery, turnVars, lcHistory, factVars, parsed, gate>>

NextChunks == CreateChunksCall

SpecChunks == InitAll /\ [][NextChunks]_vars

\* the chunk texts put together, the overlap of each later chunk with the
\* one before it left out
RECURSIVE JoinChunks(_, _)
JoinChunks(chunks, overlap) ==
  IF chunks = <<>> THEN <<>>
  ELSE IF Len(chunks) = 1 THEN chunks[1].text
  ELSE JoinChunks(SubSeq(chunks, 1, Len(chunks) - 1), overlap)
       \o PySlice(chunks[Len(chunks)].text, overlap, Len(chunks[Len(chunks)].text))

\* C19: with overlap < chunk_size, chunking a text again gives the same
\* chunk boundaries, and the chunk texts put together, the overlaps
\* accounted for, are the text: no character is lost.
C19_ChunksReconstructText ==
  (chunked.called /\ chunked.returned /\ chunked.chunk_overlap < chunked.chunk_size) =>
    /\ LET again == CreateChunks(chunked.text, chunked.chunk_size, chunked.chunk_overlap).chunks
       IN  /\ Len(again) = Len(chunked.chunks)
           /\ \A i \in 1..Len(again) :
                /\ again[i].char_start = chunked.chunks[i].char_start
                /\ again[i].char_end = chunked.chunks[i].char_end
    /\ JoinChunks(chunked.chunks, chunked.chunk_overlap) = chunked.text

\* C20: the first overlap characters of every chunk after the first are the
\* last overlap characters of the chunk before it, every chunk text is a
\* substring of the text, and a text of 1200 characters gives exactly 3
\* chunks with chunk_size 500 and overlap 50.
C20_ConsecutiveChunksOverlap ==
  (chunked.called /\ chunked.returned) =>
    /\ \A i \in 1..(Len(chunked.chunks) - 1) :
         LET earlier == chunked.chunks[i].text
             later == chunked.chunks[i + 1].text
         IN  PySlice(later, 0, chunked.chunk_overlap)
               = PySlice(earlier, Len(earlier) - chunked.chunk_overlap, Len(earlier))
    /\ \A i \in 1..Len(chunked.chunks) : Contains(chunked.chunks[i].text, chunked.text)
    /\ (Len(chunked.text) = 1200 /\ chunked.chunk_size = 500 /\ chunked.chunk_overlap = 50)
         => Len(chunked.chunks) = 3

\* C22: KnowledgeAgent.answer gives its 'not found in documents' answer only
\* after a search that succeeded and had no result at or above the
\* threshold, never after a search that failed.
C22_FailedSearchIsNotNotFound ==
  (request.op = "knowledge.answer" /\ ~result.raised /\ result.answer = NotFound) =>
    ~Happened("search_failed")

----------------------------------------------------------------------------
(* The Vector Index, VectorMemory and DocumentIndexer.                     *)
(* A point is [collection, id, type, filename, chunk_index, tag]: the      *)
(* collection that holds it, and from its payload the type ('chunk' for a  *)
(* document chunk), the file, the index and the 'collection' entry.        *)

\* the variables of the conversation, the fact stores and the single calls
chatVars == <<dbVars, lastQuery, turnVars, lcHistory, factVars, callVars>>

\* the collection names a VectorMemory is built with: the documents of the
\* chat interface and settings.QDRANT_COLLECTION_NAME
Collections == {"knowledge_base", "minerva_memory"}

\* VectorMemory(path, collection_name): __new__ gives the one instance of
\* the process, and __init__ returns at once when it ran before, so the
\* name of the first construction stays.
VectorMemoryNew ==
  /\ \E name \in Collections :
       collection_name' = IF collection_name = None THEN name ELSE collection_name
  /\ UNCHANGED <<points, documents, uuids, indexed, lastSearch, promptVars, chatVars>>

\* col_name = collection_name or self.collection_name
ColName(name) == IF name = None THEN collection_name ELSE name

\* the files given to index_document
Files ==
  { [name |-> "manual.txt", suffix |-> <<".","t","x","t">>, exists |-> TRUE, readable |-> TRUE,
     pattern |-> "words", length |-> 480],
    [name |-> "NOTAS.TXT", suffix |-> <<".","T","X","T">>, exists |-> TRUE, readable |-> TRUE,
     pattern |-> "sentences", length |-> 40],
    [name |-> "falta.txt", suffix |-> <<".","t","x","t">>, exists |-> FALSE, readable |-> FALSE,
     pattern |-> "letters", length |-> 0],
    [name |-> "foto.png", suffix |-> <<".","p","n","g">>, exists |-> TRUE, readable |-> TRUE,
     pattern |-> "letters", length |-> 40],
    [name |-> "roto.pdf", suffix |-> <<".","p","d","f">>, exists |-> TRUE, readable |-> FALSE,
     pattern |-> "letters", length |-> 40] }

SupportedSuffixes == { <<".","p","d","f">>, <<".","d","o","c","x">>, <<".","t","x","t">> }

\* DocumentProcessor.process_file, of the processor DocumentIndexer builds
\* with its defaults chunk_size=500, chunk_overlap=50
ProcessFile(file) ==
  IF ~file.exists
  THEN [raised |-> TRUE, error |-> "Archivo no encontrado", chunks |-> <<>>]
  ELSE IF LowerStr(file.suffix) \notin SupportedSuffixes
  THEN [raised |-> TRUE, error |-> "Formato no soportado", chunks |-> <<>>]
  ELSE IF ~file.readable
  THEN [raised |-> TRUE, error |-> "extraction failed", chunks |-> <<>>]
  ELSE [raised |-> FALSE, error |-> "",
        chunks |-> CreateChunks(DocumentText(file.pattern, file.length),
                                DocumentProcessorInit(CHUNK_SIZE, CHUNK_OVERLAP).chunk_size,
                                DocumentProcessorInit(CHUNK_SIZE, CHUNK_OVERLAP).chunk_overlap
                               ).chunks]

\* every file of this model with what process_file gives for it
FileChunks == [file \in Files |-> ProcessFile(file)]

\* VectorMemory.add_texts(texts, embeddings, payloads, ids, collection_name):
\* one upsert of all the points into col_name
AddTexts(stored, new_points, name) ==
  stored \cup { [p EXCEPT !.collection = ColName(name)] : p \in new_points }

\* the points FactMemoryService stored: its add_texts call names no
\* collection, and gives the payload type 'fact'
FactPoints ==
  AddTexts({}, { [collection |-> None, id |-> <<0, i>>, type |-> "fact", filename |-> "",
                  chunk_index |-> i, tag |-> None] : i \in 1..Len(qdrantFacts) }, None)

\* the points a collection holds
Collection(name) == { p \in points \cup FactPoints : p.collection = name }

\* what goes wrong in a call, if anything
IndexFaults == {"none", "embedding", "upsert", "database"}

\* the except clause of index_document with every exception as one that
\* leaves the call
IndexingErrorPropagates(filename, error) ==
  [raised |-> TRUE, success |-> FALSE, error |-> error, document_id |-> 0,
   qdrant_ids |-> {}]

\* the except clause of index_document
IndexingError(filename, error) ==
  [raised |-> FALSE, success |-> FALSE, error |-> error, document_id |-> 0,
   qdrant_ids |-> {}]

\* index_document: what the index and the table hold afterwards, whether
\* point ids were drawn, and what is returned
IndexDocumentOf(processed, file, name, fault) ==
  LET target == ColName(name)
      chunks == processed.chunks
      qdrant_ids == { <<uuids + 1, i>> : i \in 1..Len(chunks) }
      new_points == { [collection |-> None, id |-> <<uuids + 1, i>>, type |-> "chunk",
                       filename |-> file.name, chunk_index |-> chunks[i].chunk_index,
                       tag |-> target] : i \in 1..Len(chunks) }
      stored == AddTexts(points, new_points, None)
      row == [filename |-> file.name, chunk_count |-> Len(chunks),
              qdrant_collection |-> target, qdrant_ids |-> qdrant_ids,
              is_indexed |-> TRUE]
      Out(pts, docs, drew, fault_met, ret) ==
        [points |-> pts, documents |-> docs, drew |-> drew, fault |-> fault_met,
         qdrant_ids |-> IF drew THEN qdrant_ids ELSE {}, ret |-> ret]
  IN  IF processed.raised
      THEN Out(points, documents, FALSE, "process", IndexingError(file.name, processed.error))
      ELSE IF fault = "embedding"
      THEN Out(points, documents, FALSE, fault, IndexingError(file.name, "embed_batch"))
      ELSE IF fault = "upsert"
      THEN Out(points, documents, TRUE, fault, IndexingError(file.name, "upsert"))
      ELSE IF fault = "database"
      THEN Out(stored, documents, TRUE, fault, IndexingError(file.name, "add_document"))
      ELSE Out(stored, Append(documents, row), TRUE, fault,
               [raised |-> FALSE, success |-> TRUE, error |-> "",
                document_id |-> Len(documents) + 1, qdrant_ids |-> qdrant_ids])

IndexDocumentRun(file, name, fault) ==
  IndexDocumentOf(FileChunks[file], file, name, fault)

\* the index_document calls that are made: a file, the collection_name
\* argument, and what goes wrong
IndexCalls ==
  { <<file, None, "none">> : file \in Files }
  \cup { <<file, "minerva_memory", "none">> : file \in {f \in Files : f.name = "manual.txt"} }
  \cup { <<file, None, fault>> : file \in {f \in Files : f.name = "manual.txt"},
                                 fault \in IndexFaults }

IndexDocument ==
  /\ collection_name # None
  /\ uuids < MaxIndexed
  /\ \E call \in IndexCalls :
       \E o \in {IndexDocumentRun(call[1], call[2], call[3])} :
           /\ points' = o.points
           /\ documents' = o.documents
           /\ uuids' = IF o.drew THEN uuids + 1 ELSE uuids
           /\ indexed' = [op |-> "index_document", filename |-> call[1].name,
                          collection |-> call[2], document_id |-> o.ret.document_id,
                          fault |-> o.fault, raised |-> o.ret.raised,
                          success |-> o.ret.success, error |-> o.ret.error,
                          qdrant_ids |-> o.qdrant_ids,
                          after_failure |-> indexed.op = "index_document" /\ ~indexed.success]
  /\ lastSearch' = NoSearch
  /\ UNCHANGED <<collection_name, promptVars, chatVars>>

\* cosine similarity of the query of this model and a stored text, in
\* hundredths
Score(p) ==
  IF p.type = "fact" THEN 45
  ELSE IF p.filename = "manual.txt" THEN (IF p.chunk_index = 0 THEN 80 ELSE 35)
  ELSE 20

\* client.search: the limit nearest points of a collection, nearest first;
\* of two points with one score the one with the lower id is first
ClientSearch(name, limit) ==
  LET col == Collection(name)
      Before(a, b) == \/ Score(a) > Score(b)
                      \/ Score(a) = Score(b) /\ a.id[1] < b.id[1]
                      \/ Score(a) = Score(b) /\ a.id[1] = b.id[1] /\ a.id[2] < b.id[2]
      Rank(p) == 1 + Cardinality({q \in col : Before(q, p)})
      n == IF limit < Cardinality(col) THEN limit ELSE Cardinality(col)
  IN  [r \in 1..n |->
         LET p == CHOOSE q \in col : Rank(q) = r
         IN  [id |-> p.id, score |-> Score(p), type |-> p.type, filename |-> p.filename,
              collection |-> p.collection, tag |-> p.tag]]

\* a filter that keeps the results below the threshold as well
FilterByScoreKeepsAll(results, score_threshold) == results

\* [r for r in results if r['score'] >= score_threshold]
FilterByScore(results, score_threshold) ==
  SelectSeq(results, LAMBDA r : r.score >= score_threshold)

ScoreThresholds == {0, 30, 50, 100}
SearchLimits == {1, 3}
SearchFaults == {"none", "embedding", "search"}

\* search_documents: VectorMemory.search is called with the embedding and
\* the limit; an exception gives []
SearchDocumentsRun(name, limit, score_threshold, fault) ==
  IF fault # "none" THEN <<>>
  ELSE FilterByScore(ClientSearch(ColName(None), limit), score_threshold)

\* the search_documents calls that are made: the collection_name argument,
\* the limit, the threshold, and what goes wrong
SearchCalls ==
  { <<None, limit, score_threshold, "none">> :
      limit \in SearchLimits, score_threshold \in ScoreThresholds }
  \cup { <<"minerva_memory", 3, 30, "none">> }
  \cup { <<None, 3, 30, fault>> : fault \in SearchFaults }

SearchDocumentsCall ==
  /\ collection_name # None
  /\ \E call \in SearchCalls :
       lastSearch' = [called |-> TRUE, collection |-> call[1], limit |-> call[2],
                      score_threshold |-> call[3], fault |-> call[4],
                      results |-> SearchDocumentsRun(call[1], call[2], call[3], call[4])]
  /\ indexed' = NoIndexed
  /\ UNCHANGED <<collection_name, points, documents, uuids, promptVars, chatVars>>

\* has_documents: the point count of the collection asked about; an
\* exception (the collection does not exist) gives False
HasDocuments ==
  /\ collection_name # None
  /\ \E name \in Collections \cup {None}, fault \in {"none", "get_collection"} :
       indexed' = [NoIndexed EXCEPT !.op = "has_documents", !.collection = name,
                                    !.fault = fault,
                                    !.success = fault = "none"
                                                /\ Collection(ColName(name)) # {}]
  /\ lastSearch' = NoSearch
  /\ UNCHANGED <<collection_name, points, documents, uuids, promptVars, chatVars>>

\* the points left when delete_point was called for the ids in order and
\* the call for the k-th raised
RECURSIVE DeletePoints(_, _, _)
DeletePoints(stored, ids, k) ==
  IF ids = <<>> \/ k = 1 THEN stored
  ELSE DeletePoints({ p \in stored : ~(p.collection = ColName(None) /\ p.id = Head(ids)) },
                    Tail(ids), k - 1)

\* the ids of a row in the order of the list
IdList(row) == [i \in 1..Cardinality(row.qdrant_ids) |->
                  CHOOSE id \in row.qdrant_ids : id[2] = i]

\* delete_document: the row is read in a session that is closed before the
\* points are deleted, and is_indexed is set on that detached row: nothing
\* writes it to the table
DeleteDocument ==
  /\ collection_name # None
  /\ \E document_id \in 1..MaxIndexed, name \in {None},
        fault \in {"none", "get_document", "delete_point"} :
       LET found == document_id <= Len(documents)
           ids == IF found THEN IdList(documents[document_id]) ELSE <<>>
           Ret(success) == [NoIndexed EXCEPT !.op = "delete_document",
                                             !.collection = name,
                                             !.document_id = document_id,
                                             !.fault = fault, !.success = success]
       IN  IF fault = "get_document" \/ ~found
           THEN points' = points /\ indexed' = Ret(FALSE)
           ELSE IF fault = "delete_point"
           THEN /\ \E k \in 1..Len(ids) : points' = DeletePoints(points, ids, k)
                /\ indexed' = Ret(FALSE)
           ELSE /\ points' = DeletePoints(points, ids, Len(ids) + 1)
                /\ indexed' = Ret(TRUE)
  /\ documents' = documents
  /\ lastSearch' = NoSearch
  /\ UNCHANGED <<collection_name, uuids, promptVars, chatVars>>

\* DatabaseManager.get_documents: the ids of the rows listed
GetDocuments == { i \in 1..Len(documents) : documents[i].is_indexed }

NextSearch == VectorMemoryNew \/ IndexDocument \/ SearchDocumentsCall

SpecSearch == InitAll /\ [][NextSearch]_vars

NextIndex ==
  \/ VectorMemoryNew \/ IndexDocument \/ SearchDocumentsCall \/ HasDocuments
  \/ DeleteDocument

SpecIndex == InitAll /\ [][NextIndex]_vars

C23_ThresholdMonotone ==
  (lastSearch.called /\ lastSearch.fault = "none") =>
    /\ \A i \in 1..Len(lastSearch.results) :
         lastSearch.results[i].score >= lastSearch.score_threshold
    /\ \A t \in ScoreThresholds :
         t >= lastSearch.score_threshold =>
           LET higher == SearchDocumentsRun(lastSearch.collection, lastSearch.limit, t, "none")
           IN  /\ Len(higher) <= Len(lastSearch.results)
               /\ \A i \in 1..Len(higher) :
                    \E j \in 1..Len(lastSearch.results) : lastSearch.results[j] = higher[i]

\* a search that returned two chunks, one of which a higher threshold drops
C23_Witness ==
  /\ lastSearch.called
  /\ lastSearch.fault = "none"
  /\ Len(lastSearch.results) = 2
  /\ \E t \in ScoreThresholds :
       /\ t > lastSearch.score_threshold
       /\ Len(SearchDocumentsRun(lastSearch.collection, lastSearch.limit, t, "none")) = 1

\* C24: when delete_document returns True no point of the document is left
\* in the index, no search returns one, and get_documents does not list the
\* document any more.
C24_DeletedDocumentIsGone ==
  (indexed.op = "delete_document" /\ indexed.success) =>
    LET ids == documents[indexed.document_id].qdrant_ids
    IN  /\ \A p \in points : p.id \notin ids
        /\ \A call \in SearchCalls :
             LET results == SearchDocumentsRun(call[1], call[2], call[3], call[4])
             IN  \A i \in 1..Len(results) : results[i].id \notin ids
        /\ indexed.document_id \notin GetDocuments

\* C29: when index_document returns success=False no chunk of the call is
\* in the index and no row of it in the documents table; when it returns
\* success=True the qdrant_ids of the row are the ids of the chunks stored.
C29_IndexingIsAllOrNothing ==
  indexed.op = "index_document" =>
    /\ ~indexed.success =>
         /\ \A p \in points : p.id \notin indexed.qdrant_ids
         /\ \A i \in 1..Len(documents) :
              documents[i].qdrant_ids \cap indexed.qdrant_ids = {}
    /\ indexed.success =>
         /\ indexed.document_id \in 1..Len(documents)
         /\ documents[indexed.document_id].qdrant_ids = indexed.qdrant_ids
         /\ \A id \in indexed.qdrant_ids : \E p \in points : p.id = id

\* C30: the chunks of index_document(file, collection_name=C) are stored in
\* collection C only, search_documents(collection_name=C) returns points of
\* C only, and has_documents(C) says whether C holds a point.
C30_CollectionNameIsHonoured ==
  /\ \A p \in points : p.collection = p.tag
  /\ lastSearch.called =>
       \A i \in 1..Len(lastSearch.results) :
         /\ lastSearch.results[i].collection = ColName(lastSearch.collection)
         /\ lastSearch.results[i].type = "chunk" =>
              lastSearch.results[i].tag = ColName(lastSearch.collection)
  /\ (indexed.op = "has_documents" /\ indexed.fault = "none") =>
       (indexed.success <=> Collection(ColName(indexed.collection)) # {})

\* FactMemoryService.add_exchange of a service built on the VectorMemory of
\* the process
FactServiceAddExchange == collection_name # None /\ AddExchange

\* index_document on an index that holds no document yet
IndexFirstDocument == uuids = 0 /\ IndexDocument

NextCollections ==
  VectorMemoryNew \/ FactServiceAddExchange \/ IndexFirstDocument \/ SearchDocumentsCall

SpecCollections == InitAll /\ [][NextCollections]_vars

\* C26: no point written by FactMemoryService is in a collection that holds
\* a chunk written by DocumentIndexer, and search_documents returns no
\* point of FactMemoryService.
C26_FactsAndDocumentsApart ==
  /\ \A f \in FactPoints : \A p \in points : f.collection # p.collection
  /\ lastSearch.called =>
       \A i \in 1..Len(lastSearch.results) : lastSearch.results[i].type # "fact"

----------------------------------------------------------------------------
(* PromptManager.  prompt_versions[id] is the row with that id; the id of  *)
(* a deleted row is not given again (autoincrement), so its place stays.   *)

\* (agent_type, prompt_name) of the prompts that are loaded at construction
PromptKeys == { <<"fact_extractor", "extraction_prompt">>,
                <<"conversational", "system_prompt">> }

PromptRow(key, version) ==
  [key |-> key, version |-> version, is_active |-> FALSE, deleted |-> FALSE]

\* the ids of the rows of a prompt
VersionsOf(table, key) ==
  { i \in 1..Len(table) : ~table[i].deleted /\ table[i].key = key }

\* a session commit either goes through or raises and leaves the table as
\* it was
CommitFaults == {"none", "commit"}

\* an activation that leaves the other versions as they are
ActivateRowsKeepsOthers(table, version_id) ==
  [table EXCEPT ![version_id].is_active = TRUE]

\* the update of activate_prompt_version: every version of the prompt of
\* the target is made inactive, then the target active, in one commit
ActivateRows(table, version_id) ==
  [i \in 1..Len(table) |->
     IF i = version_id THEN [table[i] EXCEPT !.is_active = TRUE]
     ELSE IF ~table[i].deleted /\ table[i].key = table[version_id].key
     THEN [table[i] EXCEPT !.is_active = FALSE]
     ELSE table[i]]

\* activate_prompt_version: the table afterwards, what is returned, and
\* whether the call raised
ActivatePromptVersion(table, version_id, fault) ==
  IF ~(version_id \in 1..Len(table)) \/ table[version_id].deleted
  THEN [table |-> table, returned |-> FALSE, raised |-> FALSE]
  ELSE IF fault = "commit"
  THEN [table |-> table, returned |-> FALSE, raised |-> TRUE]
  ELSE [table |-> ActivateRows(table, version_id), returned |-> TRUE, raised |-> FALSE]

Prompted(op, version_id, returned, raised, was_active) ==
  [op |-> op, version_id |-> version_id, returned |-> returned, raised |-> raised,
   was_active |-> was_active]

\* create_prompt_version: the new row is committed inactive, then activated
\* by activate_prompt_version in a session of its own
CreatePromptVersion ==
  /\ Len(prompt_versions) < MaxVersions
  /\ \E key \in PromptKeys, auto_activate \in BOOLEAN, fault \in CommitFaults,
        activate_fault \in CommitFaults :
       LET versions == { prompt_versions[i].version : i \in VersionsOf(prompt_versions, key) }
           next_version == IF versions = {} THEN 1 ELSE SetMax(versions) + 1
           added == Append(prompt_versions, PromptRow(key, next_version))
           activated == ActivatePromptVersion(added, Len(added), activate_fault)
       IN  IF fault = "commit"
           THEN /\ prompt_versions' = prompt_versions
                /\ prompted' = Prompted("create", 0, FALSE, TRUE, FALSE)
           ELSE IF auto_activate
           THEN /\ prompt_versions' = activated.table
                /\ prompted' = Prompted("create", Len(added), ~activated.raised,
                                        activated.raised, FALSE)
           ELSE /\ prompt_versions' = added
                /\ prompted' = Prompted("create", Len(added), TRUE, FALSE, FALSE)
  /\ startup' = NoStartup
  /\ UNCHANGED <<indexVars, chatVars>>

ActivatePromptVersionCall ==
  /\ \E version_id \in 1..MaxVersions, fault \in CommitFaults :
       LET done == ActivatePromptVersion(prompt_versions, version_id, fault)
       IN  /\ prompt_versions' = done.table
           /\ prompted' = Prompted("activate", version_id, done.returned, done.raised,
                                   /\ version_id \in 1..Len(prompt_versions)
                                   /\ prompt_versions[version_id].is_active)
  /\ startup' = NoStartup
  /\ UNCHANGED <<indexVars, chatVars>>

\* delete_prompt_version
DeletePromptVersion ==
  /\ \E version_id \in 1..MaxVersions, fault \in CommitFaults :
       LET found == /\ version_id \in 1..Len(prompt_versions)
                    /\ ~prompt_versions[version_id].deleted
           active == found /\ prompt_versions[version_id].is_active
       IN  IF ~found \/ active
           THEN /\ prompt_versions' = prompt_versions
                /\ prompted' = Prompted("delete", version_id, FALSE, FALSE, active)
           ELSE IF fault = "commit"
           THEN /\ prompt_versions' = prompt_versions
                /\ prompted' = Prompted("delete", version_id, FALSE, TRUE, active)
           ELSE /\ prompt_versions' = [prompt_versions EXCEPT ![version_id].deleted = TRUE]
                /\ prompted' = Prompted("delete", version_id, TRUE, FALSE, active)
  /\ startup' = NoStartup
  /\ UNCHANGED <<indexVars, chatVars>>

\* get_active_prompt: whether the prompt has an active version
GetActivePrompt(table, key) ==
  \E i \in VersionsOf(table, key) : table[i].is_active

Started(component, db_manager, key, raised, prompt) ==
  [component |-> component, db_manager |-> db_manager,
   prompt_in_db |-> GetActivePrompt(prompt_versions, key), raised |-> raised,
   prompt |-> prompt]

\* FactExtractor.__init__ with _load_prompt: without a db_manager the
\* built-in template is taken; with one, a missing prompt or a lookup that
\* fails raises
FactExtractorNew ==
  /\ \E db_manager \in BOOLEAN, lookup_fails \in BOOLEAN :
       LET key == <<"fact_extractor", "extraction_prompt">>
       IN  startup' =
             IF ~db_manager THEN Started("FactExtractor", FALSE, key, FALSE, "default")
             ELSE IF lookup_fails \/ ~GetActivePrompt(prompt_versions, key)
             THEN Started("FactExtractor", TRUE, key, TRUE, "")
             ELSE Started("FactExtractor", TRUE, key, FALSE, "db")
  /\ prompted' = NoPrompted
  /\ UNCHANGED <<prompt_versions, indexVars, chatVars>>

\* ConversationalAgent.__init__ with _load_prompts: no db_manager, a
\* missing prompt and a lookup that fails all raise AgentExecutionError
ConversationalAgentNew ==
  /\ \E db_manager \in BOOLEAN, lookup_fails \in BOOLEAN :
       LET key == <<"conversational", "system_prompt">>
       IN  startup' =
             IF ~db_manager \/ lookup_fails \/ ~GetActivePrompt(prompt_versions, key)
             THEN Started("ConversationalAgent", db_manager, key, TRUE, "")
             ELSE Started("ConversationalAgent", TRUE, key, FALSE, "db")
  /\ prompted' = NoPrompted
  /\ UNCHANGED <<prompt_versions, indexVars, chatVars>>

NextPrompts ==
  \/ CreatePromptVersion \/ ActivatePromptVersionCall \/ DeletePromptVersion
  \/ FactExtractorNew \/ ConversationalAgentNew

SpecPrompts == InitAll /\ [][NextPrompts]_vars

\* C27: a prompt never has two active versions, and delete_prompt_version
\* leaves the active version in the table.
C27_OneActiveVersion ==
  /\ \A key \in PromptKeys :
       Cardinality({ i \in VersionsOf(prompt_versions, key) :
                       prompt_versions[i].is_active }) <= 1
  /\ (prompted.op = "delete" /\ prompted.was_active) =>
       /\ ~prompted.returned
       /\ ~prompt_versions[prompted.version_id].deleted
       /\ prompt_versions[prompted.version_id].is_active

\* a later version was activated in place of an earlier one of its prompt
C27_Witness ==
  /\ prompted.op \in {"create", "activate"}
  /\ prompted.returned
  /\ \E i, j \in 1..Len(prompt_versions) :
       /\ i # j
       /\ prompt_versions[i].key = prompt_versions[j].key
       /\ ~prompt_versions[i].deleted /\ ~prompt_versions[j].deleted
       /\ prompt_versions[j].is_active /\ prompted.version_id = j
       /\ prompt_versions[i].version = 1 /\ prompt_versions[j].version = 2

\* C25: a component that needs a prompt is built only when the prompt store
\* has an active version of it; otherwise its construction raises, and no
\* component runs on a built-in prompt.
C25_MissingPromptFailsConstruction ==
  startup.component # "none" =>
    /\ ~(startup.db_manager /\ startup.prompt_in_db) => startup.raised
    /\ startup.prompt # "default"

\* C28: with 0 <= overlap < chunk_size _create_chunks returns for every
\* text, and the window start of every iteration is greater than the one
\* of the iteration before it.
C28_ChunkingTerminates ==
  (chunked.called /\ 0 <= chunked.chunk_overlap
     /\ chunked.chunk_overlap < chunked.chunk_size) =>
    /\ chunked.returned
    /\ \A i \in 1..(Len(chunked.starts) - 1) : chunked.starts[i] < chunked.starts[i + 1]

====
